---- MODULE Spec2Model ----
(***************************************************************************)
(* Model of the per-epoch attestation state machine (src/src/state.rs) and *)
(* of the supervisor loop that drives it (src/src/main.rs).                *)
(*                                                                         *)
(* Every RPC call of the jsonrpc::Client trait is a choice point: the      *)
(* handlers are modelled as operators that return the SET of outcomes the  *)
(* call can have, one per answer the chain can give.  An outcome carries   *)
(* the returned State (or the error), the calls that were made, in order,  *)
(* and the increments of the four metrics counters.                        *)
(***************************************************************************)
EXTENDS Integers, Sequences, FiniteSets, TLC

VARIABLES
    state,       \* the supervisor's State (main.rs, `let mut state')
    last,        \* the supervisor's latest step: which branch of the select
                 \* ran, on which kind of State, what came of it, and the
                 \* increments it made to the four counters of the registry
    metrics,     \* the increments of the four counters of the metrics registry
                 \* since the State was last built by from_attestation_info
                 \* (the registry holds their sum over the epochs, which the
                 \* program never reads)
    submitted,   \* the (epoch_id, staker_address) pairs with a submitted
                 \* transaction that was not observed Rejected or Reverted
    epoch_acc,   \* which headers were handled since the State was last built
    canonical,   \* the chain: canonical[n + 1] is the hash of block n
    branch,      \* the hash the blocks produced on the current branch get
    new_heads,   \* the channel new_heads_tx -> new_heads_rx (main.rs 204)
    reorgs,      \* the channel reorg_tx -> reorg_rx (main.rs 202)
    events,      \* the channel events_tx -> events_rx (main.rs 211)
    tasks,       \* the three fetcher tasks main spawns: whether each is
                 \* starting (sleeping, subscribing), running or has exited,
                 \* and the subscription id it was given
    pc           \* where main is: in its startup, at the select of the
                 \* loop, inside a branch of the select, or returned

vars == <<state, last, metrics, submitted, epoch_acc,
          canonical, branch, new_heads, reorgs, events, tasks, pc>>

chain_vars == <<canonical, branch, new_heads, reorgs>>

loop_vars == <<events, tasks, pc>>

----------------------------------------------------------------------------
(* Bounds of the model                                                     *)

\* epoch_len reported by the staking contract
EpochLen == 14
\* attestation_window reported by the attestation contract
AttestationWindow == 12
\* number of epochs the chain goes through
NumEpochs == 2
\* cap of the sum of the four metrics counters
MaxCount == 3
\* capacity of the channels (tokio::sync::mpsc::channel(10) in main.rs)
QueueCap == 2

----------------------------------------------------------------------------
(* Program constants and value domains                                     *)

MIN_ATTESTATION_WINDOW == 10

\* config.staker_operational_address
Config == [staker_operational_address |-> 2]

\* the staker registered for the operational address, and another staker
StakerAddresses == {1}
OtherStakers == {3}
Stakes == {1000, 1001}
EpochIds == 1..NumEpochs
BlockHashes == {21, 22}
TransactionHashes == {31, 32}
MaxBlock == NumEpochs * EpochLen
BlockNumbers == 0..MaxBlock

\* starknet::core::types::TransactionStatus with its execution status
TransactionStatuses ==
    {"Received", "Rejected",
     "AcceptedOnL2Succeeded", "AcceptedOnL2Reverted",
     "AcceptedOnL1Succeeded", "AcceptedOnL1Reverted"}

\* the AttestationInfo values the staking contract can report
ChainInfos(operational_address) ==
    {[staker_address |-> s, operational_address |-> operational_address,
      stake |-> k, epoch_len |-> EpochLen, epoch_id |-> e,
      current_epoch_starting_block |-> (e - 1) * EpochLen,
      attestation_window |-> AttestationWindow] :
        s \in StakerAddresses, k \in Stakes, e \in EpochIds}

----------------------------------------------------------------------------
(* Schedule oracle                                                         *)

\* stand-in for the Poseidon hash of (stake, epoch_id, staker_address):
\* a fixed deterministic mixing function of the three inputs
PoseidonHash(stake, epoch_id, staker_address) ==
    stake * 31 + epoch_id * 17 + staker_address * 7

\* a faulty variant of calculate_expected_attestation_block: the offset is
\* taken modulo the whole epoch
calculate_expected_attestation_block_ModEpochLen(attestation_info) ==
    LET hash == PoseidonHash(attestation_info.stake, attestation_info.epoch_id,
                             attestation_info.staker_address)
        modulus == attestation_info.epoch_len
        block_offset == hash % modulus
    IN attestation_info.current_epoch_starting_block + block_offset

calculate_expected_attestation_block(attestation_info) ==
    LET hash == PoseidonHash(attestation_info.stake, attestation_info.epoch_id,
                             attestation_info.staker_address)
        modulus == attestation_info.epoch_len - attestation_info.attestation_window
        block_offset == hash % modulus
    IN attestation_info.current_epoch_starting_block + block_offset

----------------------------------------------------------------------------
(* State (src/src/state.rs)                                                *)

BeforeBlockToAttest(attestation_info, block_to_attest) ==
    [tag |-> "BeforeBlockToAttest", attestation_info |-> attestation_info,
     block_to_attest |-> block_to_attest]

Attesting(attestation_info, attestation_params) ==
    [tag |-> "Attesting", attestation_info |-> attestation_info,
     attestation_params |-> attestation_params]

AttestationSubmitted(attestation_info, attestation_params, transaction_hash) ==
    [tag |-> "AttestationSubmitted", attestation_info |-> attestation_info,
     attestation_params |-> attestation_params,
     transaction_hash |-> transaction_hash]

WaitingForNextEpoch(attestation_info) ==
    [tag |-> "WaitingForNextEpoch", attestation_info |-> attestation_info]

AttestationParams(block_hash, start, end) ==
    [block_hash |-> block_hash, start_of_attestation_window |-> start,
     end_of_attestation_window |-> end]

\* a faulty variant of in_window: the first block of the window is left out
\* a faulty variant of in_window: the block at the end of the window is
\* taken as inside it
in_window_EndIncluded(attestation_params, block_number) ==
    IF block_number < attestation_params.start_of_attestation_window
    THEN "Less"
    ELSE IF block_number > attestation_params.end_of_attestation_window
         THEN "Greater"
         ELSE "Equal"

in_window_StartExcluded(attestation_params, block_number) ==
    IF block_number <= attestation_params.start_of_attestation_window
    THEN "Less"
    ELSE IF block_number >= attestation_params.end_of_attestation_window
         THEN "Greater"
         ELSE "Equal"

in_window(attestation_params, block_number) ==
    IF block_number < attestation_params.start_of_attestation_window
    THEN "Less"
    ELSE IF block_number >= attestation_params.end_of_attestation_window
         THEN "Greater"
         ELSE "Equal"

\* a faulty variant of from_attestation_info: the block to attest is the
\* first block of the epoch
from_attestation_info_AtEpochStart(attestation_info) ==
    BeforeBlockToAttest(attestation_info,
                        attestation_info.current_epoch_starting_block)

from_attestation_info(attestation_info) ==
    BeforeBlockToAttest(attestation_info,
                        calculate_expected_attestation_block(attestation_info))

\* a faulty variant of block_in_current_epoch: the first block of the epoch
\* is left out
block_in_current_epoch_ExclusiveStart(self, block_number) ==
    /\ block_number > self.attestation_info.current_epoch_starting_block
    /\ block_number < self.attestation_info.current_epoch_starting_block
                        + self.attestation_info.epoch_len

\* a faulty variant of block_in_current_epoch: the first block of the next
\* epoch is taken in
block_in_current_epoch_InclusiveEnd(self, block_number) ==
    /\ block_number >= self.attestation_info.current_epoch_starting_block
    /\ block_number <= self.attestation_info.current_epoch_starting_block
                         + self.attestation_info.epoch_len

block_in_current_epoch(self, block_number) ==
    /\ block_number >= self.attestation_info.current_epoch_starting_block
    /\ block_number < self.attestation_info.current_epoch_starting_block
                        + self.attestation_info.epoch_len

----------------------------------------------------------------------------
(* Outcomes of a handler                                                   *)

\* one call of the jsonrpc::Client trait: who = the address argument,
\* arg = the block number / block hash / transaction hash argument,
\* res = the answer, val = the hash carried by an Ok answer
Call(op, who, arg, res, val) ==
    [op |-> op, who |-> who, arg |-> arg, res |-> res, val |-> val]

NoDelta == [submitted |-> 0, failure |-> 0, confirmed |-> 0, missed |-> 0]

AddDelta(a, b) ==
    [submitted |-> a.submitted + b.submitted, failure |-> a.failure + b.failure,
     confirmed |-> a.confirmed + b.confirmed, missed |-> a.missed + b.missed]

\* Ok(next_state) after the given calls and counter increments
Ok(next_state, calls, d) ==
    [ok |-> TRUE, state |-> next_state, calls |-> calls, d |-> d]

\* Err(..): `at' is the state value that was consumed by the failed call
Err(at, calls, d) ==
    [ok |-> FALSE, state |-> at, calls |-> calls, d |-> d]

\* the outcomes rs of a continuation, run after the calls and increments
After(calls, d, rs) ==
    {[r EXCEPT !.calls = calls \o @, !.d = AddDelta(d, @)] : r \in rs}

----------------------------------------------------------------------------
(* State::submit_attestation: the attest call and its two counters         *)

\* a faulty variant of submit_attestation: a sent transaction is not counted
submit_attestation_NotCounted(attestation_info, attestation_params) ==
    LET who == attestation_info.operational_address
        hash == attestation_params.block_hash
    IN  {[result |-> "Ok", transaction_hash |-> t,
          calls |-> <<Call("attest", who, hash, "Ok", t)>>,
          d |-> NoDelta] : t \in TransactionHashes}
        \cup
        {[result |-> "Err", transaction_hash |-> 0,
          calls |-> <<Call("attest", who, hash, e, 0)>>,
          d |-> [NoDelta EXCEPT !.failure = 1]] :
            e \in {"AttestationFailed", "Other"}}

\* a faulty variant of submit_attestation: the transaction is sent from the
\* staker address
submit_attestation_FromStaker(attestation_info, attestation_params) ==
    LET who == attestation_info.staker_address
        hash == attestation_params.block_hash
    IN  {[result |-> "Ok", transaction_hash |-> t,
          calls |-> <<Call("attest", who, hash, "Ok", t)>>,
          d |-> [NoDelta EXCEPT !.submitted = 1]] : t \in TransactionHashes}
        \cup
        {[result |-> "Err", transaction_hash |-> 0,
          calls |-> <<Call("attest", who, hash, e, 0)>>,
          d |-> [NoDelta EXCEPT !.failure = 1]] :
            e \in {"AttestationFailed", "Other"}}

submit_attestation(attestation_info, attestation_params) ==
    LET who == attestation_info.operational_address
        hash == attestation_params.block_hash
    IN  {[result |-> "Ok", transaction_hash |-> t,
          calls |-> <<Call("attest", who, hash, "Ok", t)>>,
          d |-> [NoDelta EXCEPT !.submitted = 1]] : t \in TransactionHashes}
        \cup
        {[result |-> "Err", transaction_hash |-> 0,
          calls |-> <<Call("attest", who, hash, e, 0)>>,
          d |-> [NoDelta EXCEPT !.failure = 1]] :
            e \in {"AttestationFailed", "Other"}}

(* State::check_and_submit_attestation                                     *)

\* a faulty variant of check_and_submit_attestation: the answer of the
\* is-done query is taken the wrong way round
check_and_submit_attestation_AttestsWhenDone(attestation_info, attestation_params) ==
    LET who == attestation_info.staker_address
        here == Attesting(attestation_info, attestation_params)
        done(res) == <<Call("attestation_done_in_current_epoch", who, 0, res, 0)>>
    IN  {Err(here, done("Err"), NoDelta)}
        \cup
        {Ok(WaitingForNextEpoch(attestation_info), done("false"), NoDelta)}
        \cup
        {Ok(IF s.result = "Ok"
            THEN AttestationSubmitted(attestation_info, attestation_params,
                                      s.transaction_hash)
            ELSE Attesting(attestation_info, attestation_params),
            done("true") \o s.calls, s.d) :
            s \in submit_attestation(attestation_info, attestation_params)}

\* a faulty variant of check_and_submit_attestation: a failed attest call
\* gives the epoch up
check_and_submit_attestation_GivesUp(attestation_info, attestation_params) ==
    LET who == attestation_info.staker_address
        here == Attesting(attestation_info, attestation_params)
        done(res) == <<Call("attestation_done_in_current_epoch", who, 0, res, 0)>>
    IN  {Err(here, done("Err"), NoDelta)}
        \cup
        {Ok(WaitingForNextEpoch(attestation_info), done("true"), NoDelta)}
        \cup
        {Ok(IF s.result = "Ok"
            THEN AttestationSubmitted(attestation_info, attestation_params,
                                      s.transaction_hash)
            ELSE WaitingForNextEpoch(attestation_info),
            done("false") \o s.calls, s.d) :
            s \in submit_attestation(attestation_info, attestation_params)}

\* a faulty variant of check_and_submit_attestation: the state stays
\* Attesting after a successful attest call
check_and_submit_attestation_StaysAttesting(attestation_info, attestation_params) ==
    LET who == attestation_info.staker_address
        here == Attesting(attestation_info, attestation_params)
        done(res) == <<Call("attestation_done_in_current_epoch", who, 0, res, 0)>>
    IN  {Err(here, done("Err"), NoDelta)}
        \cup
        {Ok(WaitingForNextEpoch(attestation_info), done("true"), NoDelta)}
        \cup
        {Ok(Attesting(attestation_info, attestation_params),
            done("false") \o s.calls, s.d) :
            s \in submit_attestation(attestation_info, attestation_params)}

\* a faulty variant of check_and_submit_attestation: a failed attest call is
\* propagated as the error of the handling
check_and_submit_attestation_AttestErrPropagates(attestation_info, attestation_params) ==
    LET who == attestation_info.staker_address
        here == Attesting(attestation_info, attestation_params)
        done(res) == <<Call("attestation_done_in_current_epoch", who, 0, res, 0)>>
    IN  {Err(here, done("Err"), NoDelta)}
        \cup
        {Ok(WaitingForNextEpoch(attestation_info), done("true"), NoDelta)}
        \cup
        {IF s.result = "Ok"
         THEN Ok(AttestationSubmitted(attestation_info, attestation_params,
                                      s.transaction_hash),
                 done("false") \o s.calls, s.d)
         ELSE Err(here, done("false") \o s.calls, s.d) :
            s \in submit_attestation(attestation_info, attestation_params)}

check_and_submit_attestation(attestation_info, attestation_params) ==
    LET who == attestation_info.staker_address
        here == Attesting(attestation_info, attestation_params)
        done(res) == <<Call("attestation_done_in_current_epoch", who, 0, res, 0)>>
    IN  {Err(here, done("Err"), NoDelta)}
        \cup
        {Ok(WaitingForNextEpoch(attestation_info), done("true"), NoDelta)}
        \cup
        {Ok(IF s.result = "Ok"
            THEN AttestationSubmitted(attestation_info, attestation_params,
                                      s.transaction_hash)
            ELSE Attesting(attestation_info, attestation_params),
            done("false") \o s.calls, s.d) :
            s \in submit_attestation(attestation_info, attestation_params)}

(* State::check_and_mark_epoch_as_missed: the calls and the increments     *)

\* a faulty variant of check_and_mark_epoch_as_missed: a failed query does
\* not count the epoch as missed
check_and_mark_epoch_as_missed_ErrNotCounted(staker_address) ==
    LET done(res) ==
            <<Call("attestation_done_in_current_epoch", staker_address, 0, res, 0)>>
    IN  {[calls |-> done("false"), d |-> [NoDelta EXCEPT !.missed = 1]],
         [calls |-> done("true"), d |-> NoDelta],
         [calls |-> done("Err"), d |-> NoDelta]}

\* a faulty variant of check_and_mark_epoch_as_missed: the epoch is counted
\* as missed whatever the query answers
check_and_mark_epoch_as_missed_AlwaysCounted(staker_address) ==
    LET done(res) ==
            <<Call("attestation_done_in_current_epoch", staker_address, 0, res, 0)>>
    IN  {[calls |-> done("false"), d |-> [NoDelta EXCEPT !.missed = 1]],
         [calls |-> done("true"), d |-> [NoDelta EXCEPT !.missed = 1]],
         [calls |-> done("Err"), d |-> [NoDelta EXCEPT !.missed = 1]]}

check_and_mark_epoch_as_missed(staker_address) ==
    LET done(res) ==
            <<Call("attestation_done_in_current_epoch", staker_address, 0, res, 0)>>
    IN  {[calls |-> done("false"), d |-> [NoDelta EXCEPT !.missed = 1]],
         [calls |-> done("true"), d |-> NoDelta],
         [calls |-> done("Err"), d |-> [NoDelta EXCEPT !.missed = 1]]}

----------------------------------------------------------------------------
(* State::handle_new_block_header, lines 150-315: the arms of the match    *)

\* a faulty variant of before_block_to_attest_arm: on the assigned block the
\* end of the window is counted from the start of the window
before_block_to_attest_arm_EndFromStart(st, block_number, block_hash) ==
    LET attestation_info == st.attestation_info
        block_to_attest == st.block_to_attest
        attestation_window == attestation_info.attestation_window
    IN  IF block_number < block_to_attest
        THEN {Ok(BeforeBlockToAttest(attestation_info, block_to_attest),
                 <<>>, NoDelta)}
        ELSE IF block_number = block_to_attest
        THEN {Ok(Attesting(attestation_info,
                   AttestationParams(block_hash,
                       block_number + MIN_ATTESTATION_WINDOW,
                       block_number + MIN_ATTESTATION_WINDOW
                         + attestation_window)),
                 <<>>, NoDelta)}
        ELSE {Err(st, <<Call("get_block_hash", 0, block_to_attest, "Err", 0)>>,
                  NoDelta)}
             \cup
             {Ok(Attesting(attestation_info,
                   AttestationParams(hash,
                       block_to_attest + MIN_ATTESTATION_WINDOW,
                       block_to_attest + attestation_window)),
                 <<Call("get_block_hash", 0, block_to_attest, "Ok", hash)>>,
                 NoDelta) : hash \in BlockHashes}

\* a faulty variant of before_block_to_attest_arm: on a late start the
\* window is counted from the block of the header
before_block_to_attest_arm_WindowFromHeader(st, block_number, block_hash) ==
    LET attestation_info == st.attestation_info
        block_to_attest == st.block_to_attest
        attestation_window == attestation_info.attestation_window
    IN  IF block_number < block_to_attest
        THEN {Ok(BeforeBlockToAttest(attestation_info, block_to_attest),
                 <<>>, NoDelta)}
        ELSE IF block_number = block_to_attest
        THEN {Ok(Attesting(attestation_info,
                   AttestationParams(block_hash,
                       block_number + MIN_ATTESTATION_WINDOW,
                       block_number + attestation_window)),
                 <<>>, NoDelta)}
        ELSE {Err(st, <<Call("get_block_hash", 0, block_to_attest, "Err", 0)>>,
                  NoDelta)}
             \cup
             {Ok(Attesting(attestation_info,
                   AttestationParams(hash,
                       block_number + MIN_ATTESTATION_WINDOW,
                       block_number + attestation_window)),
                 <<Call("get_block_hash", 0, block_to_attest, "Ok", hash)>>,
                 NoDelta) : hash \in BlockHashes}

\* lines 151-192
before_block_to_attest_arm(st, block_number, block_hash) ==
    LET attestation_info == st.attestation_info
        block_to_attest == st.block_to_attest
        attestation_window == attestation_info.attestation_window
    IN  IF block_number < block_to_attest
        THEN {Ok(BeforeBlockToAttest(attestation_info, block_to_attest),
                 <<>>, NoDelta)}
        ELSE IF block_number = block_to_attest
        THEN {Ok(Attesting(attestation_info,
                   AttestationParams(block_hash,
                       block_number + MIN_ATTESTATION_WINDOW,
                       block_number + attestation_window)),
                 <<>>, NoDelta)}
        ELSE {Err(st, <<Call("get_block_hash", 0, block_to_attest, "Err", 0)>>,
                  NoDelta)}
             \cup
             {Ok(Attesting(attestation_info,
                   AttestationParams(hash,
                       block_to_attest + MIN_ATTESTATION_WINDOW,
                       block_to_attest + attestation_window)),
                 <<Call("get_block_hash", 0, block_to_attest, "Ok", hash)>>,
                 NoDelta) : hash \in BlockHashes}

\* a faulty variant of attesting_arm: past the window the arm stays in
\* Attesting
attesting_arm_StaysPastWindow(st, block_number) ==
    LET attestation_info == st.attestation_info
        attestation_params == st.attestation_params
        ordering == in_window(attestation_params, block_number)
    IN  IF ordering = "Equal"
        THEN check_and_submit_attestation(attestation_info, attestation_params)
        ELSE {Ok(Attesting(attestation_info, attestation_params), <<>>, NoDelta)}

\* lines 193-216
attesting_arm(st, block_number) ==
    LET attestation_info == st.attestation_info
        attestation_params == st.attestation_params
        ordering == in_window(attestation_params, block_number)
    IN  IF ordering = "Less"
        THEN {Ok(Attesting(attestation_info, attestation_params), <<>>, NoDelta)}
        ELSE IF ordering = "Equal"
        THEN check_and_submit_attestation(attestation_info, attestation_params)
        ELSE {Ok(WaitingForNextEpoch(attestation_info), m.calls, m.d) :
                 m \in check_and_mark_epoch_as_missed(
                           attestation_info.staker_address)}

\* a faulty variant of AttestationTransactionFailed: the guard on the
\* execution status is missing for a transaction accepted on L2
AttestationTransactionFailed_AnyAcceptedOnL2(status) ==
    status \in {"Rejected", "AcceptedOnL2Reverted", "AcceptedOnL1Reverted",
                "AcceptedOnL2Succeeded"}

\* lines 244-285: the statuses that count as a failure and are retried
AttestationTransactionFailed(status) ==
    status \in {"Rejected", "AcceptedOnL2Reverted", "AcceptedOnL1Reverted"}

\* a faulty variant of attestation_submitted_arm: a failed status query is
\* propagated as the error of the handling
attestation_submitted_arm_ErrPropagates(st, block_number) ==
    LET attestation_info == st.attestation_info
        attestation_params == st.attestation_params
        transaction_hash == st.transaction_hash
        ordering == in_window(attestation_params, block_number)
        status(res) ==
            <<Call("attestation_status", 0, transaction_hash, res, 0)>>
    IN  IF ordering \in {"Less", "Equal"}
        THEN UNION {
               IF res = "Err"
               THEN {Err(st, status(res), NoDelta)}
               ELSE IF res = "Received"
               THEN {Ok(AttestationSubmitted(attestation_info,
                            attestation_params, transaction_hash),
                        status(res), NoDelta)}
               ELSE IF AttestationTransactionFailed(res)
               THEN After(status(res), [NoDelta EXCEPT !.failure = 1],
                          check_and_submit_attestation(attestation_info,
                                                       attestation_params))
               ELSE {Ok(WaitingForNextEpoch(attestation_info),
                        status(res), [NoDelta EXCEPT !.confirmed = 1])} :
               res \in TransactionStatuses \cup {"Err"}}
        ELSE {Ok(WaitingForNextEpoch(attestation_info), m.calls, m.d) :
                 m \in check_and_mark_epoch_as_missed(
                           attestation_info.staker_address)}

\* lines 217-311
attestation_submitted_arm(st, block_number) ==
    LET attestation_info == st.attestation_info
        attestation_params == st.attestation_params
        transaction_hash == st.transaction_hash
        ordering == in_window(attestation_params, block_number)
        status(res) ==
            <<Call("attestation_status", 0, transaction_hash, res, 0)>>
    IN  IF ordering \in {"Less", "Equal"}
        THEN UNION {
               IF res \in {"Err", "Received"}
               THEN {Ok(AttestationSubmitted(attestation_info,
                            attestation_params, transaction_hash),
                        status(res), NoDelta)}
               ELSE IF AttestationTransactionFailed(res)
               THEN After(status(res), [NoDelta EXCEPT !.failure = 1],
                          check_and_submit_attestation(attestation_info,
                                                       attestation_params))
               ELSE {Ok(WaitingForNextEpoch(attestation_info),
                        status(res), [NoDelta EXCEPT !.confirmed = 1])} :
               res \in TransactionStatuses \cup {"Err"}}
        ELSE {Ok(WaitingForNextEpoch(attestation_info), m.calls, m.d) :
                 m \in check_and_mark_epoch_as_missed(
                           attestation_info.staker_address)}

\* a faulty variant of waiting_for_next_epoch_arm: the arm asks whether the
\* attestation is done and counts the epoch as missed like the arms past
\* the window
waiting_for_next_epoch_arm_ChecksMissed(st) ==
    {Ok(WaitingForNextEpoch(st.attestation_info), m.calls, m.d) :
        m \in check_and_mark_epoch_as_missed(st.attestation_info.staker_address)}

\* lines 312-314
waiting_for_next_epoch_arm(st) ==
    {Ok(WaitingForNextEpoch(st.attestation_info), <<>>, NoDelta)}

dispatch(st, block_number, block_hash) ==
    CASE st.tag = "BeforeBlockToAttest" ->
           before_block_to_attest_arm(st, block_number, block_hash)
      [] st.tag = "Attesting" -> attesting_arm(st, block_number)
      [] st.tag = "AttestationSubmitted" -> attestation_submitted_arm(st, block_number)
      [] st.tag = "WaitingForNextEpoch" -> waiting_for_next_epoch_arm(st)

(* State::handle_new_block_header: the epoch rollover check, then the      *)
(* match.  An outcome also names the state the match was run on.           *)

Dispatched(st, rs) ==
    {[ok |-> r.ok, state |-> r.state, calls |-> r.calls, d |-> r.d,
      dispatched |-> st] : r \in rs}

handle_new_block_header(self, operational_address, block_number, block_hash) ==
    IF block_in_current_epoch(self, block_number)
    THEN Dispatched(self, dispatch(self, block_number, block_hash))
    ELSE Dispatched(self,
           {Err(self, <<Call("get_attestation_info", operational_address, 0,
                             "Err", 0)>>, NoDelta)})
         \cup
         UNION {
           LET rebuilt == from_attestation_info(attestation_info)
           IN  Dispatched(rebuilt,
                 After(<<Call("get_attestation_info", operational_address, 0,
                              "Ok", 0),
                         Call("get_strk_balance", operational_address, 0,
                              "Ignored", 0)>>,
                       NoDelta,
                       dispatch(rebuilt, block_number, block_hash))) :
           attestation_info \in ChainInfos(operational_address)}

----------------------------------------------------------------------------
(* State::handle_new_event                                                 *)

\* a faulty variant of handle_attestation_successful_event: the epoch of the
\* event is not compared
handle_attestation_successful_event_AnyEpoch(self, staker_address, epoch_id) ==
    IF self.tag \in {"Attesting", "AttestationSubmitted"}
    THEN IF self.attestation_info.staker_address = staker_address
         THEN [state |-> WaitingForNextEpoch(self.attestation_info),
               d |-> [NoDelta EXCEPT !.confirmed = 1]]
         ELSE [state |-> self, d |-> NoDelta]
    ELSE [state |-> self, d |-> NoDelta]

handle_attestation_successful_event(self, staker_address, epoch_id) ==
    IF self.tag \in {"Attesting", "AttestationSubmitted"}
    THEN IF /\ self.attestation_info.staker_address = staker_address
            /\ self.attestation_info.epoch_id = epoch_id
         THEN [state |-> WaitingForNextEpoch(self.attestation_info),
               d |-> [NoDelta EXCEPT !.confirmed = 1]]
         ELSE [state |-> self, d |-> NoDelta]
    ELSE [state |-> self, d |-> NoDelta]

handle_new_event(self, event) ==
    handle_attestation_successful_event(self, event.staker_address, event.epoch_id)

----------------------------------------------------------------------------
(* The supervisor loop (src/src/main.rs, lines 265-371)                    *)

\* a faulty variant of header_branch: the snapshot is not restored
header_branch_NoRestore(old_state, result) == result.state

\* header branch, lines 305-316: replace the state or restore the snapshot
header_branch(old_state, result) ==
    IF result.ok THEN result.state ELSE old_state

\* reorg branch, lines 345-365: the outcomes of the re-query
reorg_branch(old_state, operational_address) ==
    {[ok |-> FALSE, state |-> old_state,
      calls |-> <<Call("get_attestation_info", operational_address, 0, "Err", 0)>>]}
    \cup
    {[ok |-> TRUE, state |-> from_attestation_info(attestation_info),
      calls |-> <<Call("get_attestation_info", operational_address, 0, "Ok", 0)>>] :
        attestation_info \in ChainInfos(operational_address)}

Total(m) == m.submitted + m.failure + m.confirmed + m.missed

----------------------------------------------------------------------------
(* Observers of an outcome                                                 *)

HasCall(calls, op) == \E i \in DOMAIN calls : calls[i].op = op

HasAnswer(calls, op, answers) ==
    \E i \in DOMAIN calls : calls[i].op = op /\ calls[i].res \in answers

\* the terminal failure statuses: rejected, or accepted and reverted
TerminalFailures == {"Rejected", "AcceptedOnL2Reverted", "AcceptedOnL1Reverted"}

ObservedFailure(calls) == HasAnswer(calls, "attestation_status", TerminalFailures)

Rebuilt(calls) == HasAnswer(calls, "get_attestation_info", {"Ok"})

\* the comparison the match arm of the dispatched state makes
Arm(st, block_number) ==
    IF st.tag = "BeforeBlockToAttest"
    THEN IF block_number < st.block_to_attest THEN "Less"
         ELSE IF block_number = st.block_to_attest THEN "Equal" ELSE "Greater"
    ELSE IF st.tag = "WaitingForNextEpoch" THEN "None"
    ELSE in_window(st.attestation_params, block_number)

EpochKey(attestation_info) ==
    [epoch_id |-> attestation_info.epoch_id,
     staker_address |-> attestation_info.staker_address]

\* attest_failed: "none" while no header inside the window was handled,
\* "every" while the handling of each of them had a failed attest call
NewEpochAcc ==
    [assigned_block |-> FALSE, in_window_block |-> FALSE, failed_statuses |-> 0,
     attest_failed |-> "none"]

AccAfterHeader(r, block_number) ==
    LET base == IF Rebuilt(r.calls) /\ r.ok THEN NewEpochAcc ELSE epoch_acc
        st == IF r.ok THEN r.dispatched ELSE state
        arm == Arm(st, block_number)
    IN  [assigned_block |->
             \/ base.assigned_block
             \/ st.tag = "BeforeBlockToAttest" /\ arm = "Equal",
         in_window_block |->
             \/ base.in_window_block
             \/ /\ base.assigned_block
                /\ st.tag \in {"Attesting", "AttestationSubmitted"}
                /\ arm = "Equal",
         failed_statuses |->
             base.failed_statuses + (IF ObservedFailure(r.calls) THEN 1 ELSE 0),
         attest_failed |->
             IF st.tag \in {"Attesting", "AttestationSubmitted"} /\ arm = "Equal"
             THEN IF /\ HasAnswer(r.calls, "attest", {"AttestationFailed", "Other"})
                     /\ base.attest_failed # "not_every"
                  THEN "every" ELSE "not_every"
             ELSE base.attest_failed]

SubmittedAfterHeader(r) ==
    LET key == EpochKey(r.dispatched.attestation_info)
        kept == IF ObservedFailure(r.calls) THEN submitted \ {key} ELSE submitted
    IN  IF HasAnswer(r.calls, "attest", {"Ok"}) THEN kept \cup {key} ELSE kept

\* the record of a step: the branch of the select that ran, the kind of
\* State it found, whether get_attestation_info was called, the kind of
\* State the match was run on and the comparison it made, the result, the
\* increments of the counters
Step(kind, pre, refetch, dispatched, arm, ok, d) ==
    [kind |-> kind, after_reorg |-> (last.kind = "reorg"),
     from |-> pre.tag, refetch |-> refetch,
     on |-> dispatched.tag, arm |-> arm, ok |-> ok, d |-> d]

----------------------------------------------------------------------------
(* The fetcher tasks and the position of main                              *)

\* headers::fetch, events::fetch and transactions::fetch, spawned at main.rs
\* 205, 212 and 219
TaskNames == {"headers", "events", "transactions"}

\* the ids the node gives to the subscriptions of the headers and of the
\* events task, and an id it gave to none of the subscriptions of this
\* program; transactions::fetch has no subscription id of its own
HeadersSubscriptionId == 1
EventsSubscriptionId == 2
ForeignSubscriptionId == 3
SubscriptionIds == {HeadersSubscriptionId, EventsSubscriptionId}

SubscriptionIdOf(t) ==
    IF t = "headers" THEN HeadersSubscriptionId
    ELSE IF t = "events" THEN EventsSubscriptionId
    ELSE 0

\* a task that sleeps TASK_RESTART_DELAY or is subscribing, a task in its
\* receive loop with the subscription id it was given, and a task whose
\* future has completed
Starting == [status |-> "starting", subscription_id |-> 0]
Running(subscription_id) ==
    [status |-> "running", subscription_id |-> subscription_id]
Exited == [status |-> "exited", subscription_id |-> 0]

\* main is at the select of its loop (main.rs 266)
AtSelect == [at |-> "select"]

----------------------------------------------------------------------------
(* The branches of the select loop, as they change state and metrics       *)

\* the State built at startup and the observation variables
InitState ==
    /\ \E attestation_info \in ChainInfos(Config.staker_operational_address) :
          state = from_attestation_info(attestation_info)
    /\ last = [kind |-> "init", after_reorg |-> FALSE,
               from |-> "BeforeBlockToAttest", refetch |-> TRUE,
               on |-> "BeforeBlockToAttest", arm |-> "None", ok |-> TRUE,
               d |-> NoDelta]
    /\ metrics = NoDelta
    /\ submitted = {}
    /\ epoch_acc = NewEpochAcc

\* the chain is not observed by Spec and SpecEpoch: their headers carry
\* any block number and hash, their RPC calls any answer
Init ==
    /\ InitState
    /\ canonical = <<21>>
    /\ branch = 21
    /\ new_heads = <<>>
    /\ reorgs = <<>>
    /\ events = <<>>
    /\ tasks = [t \in TaskNames |-> Running(SubscriptionIdOf(t))]
    /\ pc = AtSelect

\* new_heads_rx.recv(): a header of any block, with outcome r of its handling
HandleHeader(r) == state' = header_branch(state, r)

\* events_rx.recv()
HandleEvent(event) == state' = handle_new_event(state, event).state

\* reorg_rx.recv(), with outcome o of the re-query
HandleReorg(o) == state' = o.state

\* the counters after a header: the increments are made whether the
\* handling ends in an error or not
CountHeader(r) ==
    LET counted == IF Rebuilt(r.calls) /\ r.ok THEN NoDelta ELSE metrics
    IN  /\ Total(AddDelta(counted, r.d)) <= MaxCount
        /\ metrics' = AddDelta(counted, r.d)

CountEvent(event) ==
    LET e == handle_new_event(state, event)
    IN  /\ Total(AddDelta(metrics, e.d)) <= MaxCount
        /\ metrics' = AddDelta(metrics, e.d)

CountReorg(o) == metrics' = IF o.ok THEN NoDelta ELSE metrics

Events ==
    {[staker_address |-> staker_address, epoch_id |-> epoch_id] :
        staker_address \in StakerAddresses \cup OtherStakers, epoch_id \in EpochIds}

----------------------------------------------------------------------------
(* Specification Spec: the supervisor, observed step by step: the State    *)
(* and, in `last', what the step did, the counter increments included      *)

Header ==
    \E block_number \in BlockNumbers, block_hash \in BlockHashes :
      \E r \in handle_new_block_header(state, Config.staker_operational_address,
                                       block_number, block_hash) :
        /\ HandleHeader(r)
        /\ last' = Step("header", state, HasCall(r.calls, "get_attestation_info"),
                        r.dispatched,
                        Arm(r.dispatched, block_number), r.ok, r.d)
        /\ UNCHANGED <<metrics, submitted, epoch_acc>>
        /\ UNCHANGED chain_vars
        /\ UNCHANGED loop_vars

Event ==
    \E event \in Events :
        /\ HandleEvent(event)
        /\ last' = Step("event", state, FALSE, state, "None", TRUE,
                        handle_new_event(state, event).d)
        /\ UNCHANGED <<metrics, submitted, epoch_acc>>
        /\ UNCHANGED chain_vars
        /\ UNCHANGED loop_vars

Reorg ==
    \E o \in reorg_branch(state, Config.staker_operational_address) :
        /\ HandleReorg(o)
        /\ last' = Step("reorg", state, HasCall(o.calls, "get_attestation_info"),
                        state, "None", o.ok, NoDelta)
        /\ UNCHANGED <<metrics, submitted, epoch_acc>>
        /\ UNCHANGED chain_vars
        /\ UNCHANGED loop_vars

Next == Header \/ Event \/ Reorg

Spec == Init /\ [][Next]_vars

----------------------------------------------------------------------------
(* Specification SpecEpoch: the same supervisor, observed over an epoch:   *)
(* the State, the counters, and what was handled and submitted so far      *)

HeaderEpoch ==
    \E block_number \in BlockNumbers, block_hash \in BlockHashes :
      \E r \in handle_new_block_header(state, Config.staker_operational_address,
                                       block_number, block_hash) :
        /\ HandleHeader(r)
        /\ CountHeader(r)
        /\ submitted' = SubmittedAfterHeader(r)
        /\ epoch_acc' = AccAfterHeader(r, block_number)
        /\ UNCHANGED last
        /\ UNCHANGED chain_vars
        /\ UNCHANGED loop_vars

EventEpoch ==
    \E event \in Events :
        /\ HandleEvent(event)
        /\ CountEvent(event)
        /\ UNCHANGED <<last, submitted, epoch_acc>>
        /\ UNCHANGED chain_vars
        /\ UNCHANGED loop_vars

ReorgEpoch ==
    \E o \in reorg_branch(state, Config.staker_operational_address) :
        /\ HandleReorg(o)
        /\ CountReorg(o)
        /\ epoch_acc' = IF o.ok THEN NewEpochAcc ELSE epoch_acc
        /\ UNCHANGED <<last, submitted>>
        /\ UNCHANGED chain_vars
        /\ UNCHANGED loop_vars

NextEpoch == HeaderEpoch \/ EventEpoch \/ ReorgEpoch

SpecEpoch == Init /\ [][NextEpoch]_vars

----------------------------------------------------------------------------
(* Specification SpecChain: the supervisor fed by a chain through the two  *)
(* channels of headers::fetch: blocks are produced and retracted, their    *)
(* headers and the reorg notifications wait in separate channels, and the  *)
(* select loop takes from either.  get_block_hash and get_attestation_info *)
(* answer from the chain as it is at the time of the call.                 *)

\* the number of the latest block, and the epoch it lies in
ChainHead == Len(canonical) - 1

\* the last block the chain produces: the first blocks of the second epoch
LastBlock == EpochLen + QueueCap

ChainEpoch == (ChainHead \div EpochLen) + 1

\* jsonrpc::Client::get_block_hash and get_attestation_info read the chain:
\* a successful get_block_hash(n) returns the canonical hash of block n,
\* a successful get_attestation_info returns the info of the current epoch
ChainAnswers(calls, attestation_info) ==
    /\ \A i \in DOMAIN calls :
          (calls[i].op = "get_block_hash" /\ calls[i].res = "Ok") =>
             /\ calls[i].arg <= ChainHead
             /\ calls[i].val = canonical[calls[i].arg + 1]
    /\ HasAnswer(calls, "get_attestation_info", {"Ok"}) =>
          attestation_info.epoch_id = ChainEpoch

\* the sequencer produces the next block; headers::fetch (headers.rs 33-41)
\* sends its header to the channel, which has room for it
ProduceBlock ==
    /\ ChainHead < LastBlock
    /\ Len(new_heads) < QueueCap
    /\ canonical' = Append(canonical, branch)
    /\ new_heads' = Append(new_heads, [block_number |-> ChainHead + 1,
                                       block_hash |-> branch])
    /\ UNCHANGED <<state, last, metrics, submitted, epoch_acc, branch, reorgs>>
    /\ UNCHANGED loop_vars

\* the chain retracts the blocks from starting_block_number on and goes on
\* on another branch; headers::fetch (headers.rs 42-50) sends the reorg
\* notification to its own channel; headers already sent stay where they are
ChainReorg ==
    \E starting_block_number \in 1..ChainHead,
       other \in {h \in BlockHashes : h > branch} :
        /\ Len(reorgs) < QueueCap
        /\ canonical' = SubSeq(canonical, 1, starting_block_number)
        /\ branch' = other
        /\ reorgs' = Append(reorgs,
                            [starting_block_number |-> starting_block_number,
                             ending_block_number |-> ChainHead])
        /\ UNCHANGED <<state, last, metrics, submitted, epoch_acc, new_heads>>
        /\ UNCHANGED loop_vars

\* new_heads_rx.recv() (main.rs 299-320)
TakeHeader ==
    /\ new_heads # <<>>
    /\ \E r \in handle_new_block_header(state, Config.staker_operational_address,
                                         Head(new_heads).block_number,
                                         Head(new_heads).block_hash) :
          /\ ChainAnswers(r.calls, r.dispatched.attestation_info)
          /\ HandleHeader(r)
    /\ new_heads' = Tail(new_heads)
    /\ UNCHANGED <<last, metrics, submitted, epoch_acc, canonical, branch, reorgs>>
    /\ UNCHANGED loop_vars

\* events_rx.recv() (main.rs 321-330)
TakeEvent ==
    /\ \E event \in Events : HandleEvent(event)
    /\ UNCHANGED <<last, metrics, submitted, epoch_acc>>
    /\ UNCHANGED chain_vars
    /\ UNCHANGED loop_vars

\* reorg_rx.recv() (main.rs 341-369): a failed re-query sends the
\* notification to the channel again
TakeReorg ==
    /\ reorgs # <<>>
    /\ \E o \in reorg_branch(state, Config.staker_operational_address) :
          /\ ChainAnswers(o.calls, o.state.attestation_info)
          /\ HandleReorg(o)
          /\ reorgs' = IF o.ok THEN Tail(reorgs)
                       ELSE Append(Tail(reorgs), Head(reorgs))
    /\ UNCHANGED <<last, metrics, submitted, epoch_acc, canonical, branch,
                   new_heads>>
    /\ UNCHANGED loop_vars

\* startup (main.rs 202-254): the chain is at its first block, the
\* channels are empty, and the State is built from the info of the epoch
\* the chain is in
InitChain == Init /\ state.attestation_info.epoch_id = ChainEpoch

NextChain == ProduceBlock \/ ChainReorg \/ TakeHeader \/ TakeEvent \/ TakeReorg

SpecChain == InitChain /\ [][NextChain]_vars

----------------------------------------------------------------------------
(* Specification SpecStartup: the startup of main up to the construction   *)
(* of the StarknetRpcClient (src/src/main.rs, lines 142-152): the chain id *)
(* is asked of the node and the three contract addresses are resolved.     *)

\* starknet::core::chain_id::MAINNET and SEPOLIA, and a chain id of another
\* network
MAINNET == "SN_MAIN"
SEPOLIA == "SN_SEPOLIA"
ChainIds == {MAINNET, SEPOLIA, "SN_OTHER"}

\* the address constants of main.rs 379-382, 396-399 and 421-422
MAINNET_STAKING_CONTRACT_ADDRESS == "0x00ca1702"
SEPOLIA_STAKING_CONTRACT_ADDRESS == "0x03745ab0"
MAINNET_ATTESTATION_CONTRACT_ADDRESS == "0x010398fe"
SEPOLIA_ATTESTATION_CONTRACT_ADDRESS == "0x3f32e152"
STRK_CONTRACT_ADDRESS == "0x04718f5a"

\* the values of the two optional address arguments of Config
\* (main.rs 25-39): Option<Felt>
SuppliedAddresses == {"0x51", "0x52", "0x53"}
AddressArguments == {"None"} \cup SuppliedAddresses

Configs ==
    [staking_contract_address : AddressArguments,
     attestation_contract_address : AddressArguments]

\* Option::or_else of main.rs 384-392 and 401-411: the argument if there is
\* one, else the constant of the chain, else None
or_else_chain_default(argument, chain_id, mainnet_address, sepolia_address) ==
    IF argument # "None" THEN argument
    ELSE IF chain_id = MAINNET THEN mainnet_address
    ELSE IF chain_id = SEPOLIA THEN sepolia_address
    ELSE "None"

\* main.rs 378-417
contract_addresses_from_config(config, chain_id) ==
    LET staking_contract_address ==
            or_else_chain_default(config.staking_contract_address, chain_id,
                                  MAINNET_STAKING_CONTRACT_ADDRESS,
                                  SEPOLIA_STAKING_CONTRACT_ADDRESS)
        attestation_contract_address ==
            or_else_chain_default(config.attestation_contract_address, chain_id,
                                  MAINNET_ATTESTATION_CONTRACT_ADDRESS,
                                  SEPOLIA_ATTESTATION_CONTRACT_ADDRESS)
    IN  IF staking_contract_address = "None"
        THEN [ok |-> FALSE, error |-> "Staking contract address is required"]
        ELSE IF attestation_contract_address = "None"
        THEN [ok |-> FALSE, error |-> "Attestation contract address is required"]
        ELSE [ok |-> TRUE,
              staking_contract_address |-> staking_contract_address,
              attestation_contract_address |-> attestation_contract_address]

\* main.rs 419-435
strk_contract_address_from_chain_id(chain_id) ==
    IF chain_id = MAINNET \/ chain_id = SEPOLIA
    THEN [ok |-> TRUE, strk_contract_address |-> STRK_CONTRACT_ADDRESS]
    ELSE [ok |-> FALSE, error |-> "STRK contract address is not configured"]

\* main returned the error from its startup
StartupFailed(config, chain_id, error) ==
    [at |-> "failed", config |-> config, chain_id |-> chain_id, error |-> error]

\* main.rs 142: client.chain_id().await.context("Getting chain ID")?
GetChainId ==
    /\ pc.at = "chain_id"
    /\ \E res \in ChainIds \cup {"Err"} :
          pc' = IF res = "Err"
                THEN StartupFailed(pc.config, "None", "Getting chain ID")
                ELSE [at |-> "contract_addresses", config |-> pc.config,
                      chain_id |-> res]
    /\ UNCHANGED <<state, last, metrics, submitted, epoch_acc, events, tasks>>
    /\ UNCHANGED chain_vars

\* main.rs 143-144: contract_addresses_from_config(&config, chain_id)?
ResolveContractAddresses ==
    /\ pc.at = "contract_addresses"
    /\ LET resolved == contract_addresses_from_config(pc.config, pc.chain_id)
       IN  pc' = IF resolved.ok
                 THEN [at |-> "strk_contract_address", config |-> pc.config,
                       chain_id |-> pc.chain_id,
                       staking_contract_address |->
                           resolved.staking_contract_address,
                       attestation_contract_address |->
                           resolved.attestation_contract_address]
                 ELSE StartupFailed(pc.config, pc.chain_id, resolved.error)
    /\ UNCHANGED <<state, last, metrics, submitted, epoch_acc, events, tasks>>
    /\ UNCHANGED chain_vars

\* main.rs 145-152: strk_contract_address_from_chain_id(chain_id)?, then
\* StarknetRpcClient::new with the three addresses
ResolveStrkContractAddress ==
    /\ pc.at = "strk_contract_address"
    /\ LET resolved == strk_contract_address_from_chain_id(pc.chain_id)
       IN  pc' = IF resolved.ok
                 THEN [at |-> "client", config |-> pc.config,
                       chain_id |-> pc.chain_id,
                       staking_contract_address |-> pc.staking_contract_address,
                       attestation_contract_address |->
                           pc.attestation_contract_address,
                       strk_contract_address |-> resolved.strk_contract_address]
                 ELSE StartupFailed(pc.config, pc.chain_id, resolved.error)
    /\ UNCHANGED <<state, last, metrics, submitted, epoch_acc, events, tasks>>
    /\ UNCHANGED chain_vars

\* main after Config::parse() (main.rs 106): no task is spawned yet and
\* the State is not built yet (it is at main.rs 254)
NotBuilt == [tag |-> "NotBuilt"]

InitStartup ==
    /\ state = NotBuilt
    /\ last = [kind |-> "startup"]
    /\ metrics = NoDelta
    /\ submitted = {}
    /\ epoch_acc = NewEpochAcc
    /\ canonical = <<21>>
    /\ branch = 21
    /\ new_heads = <<>>
    /\ reorgs = <<>>
    /\ events = <<>>
    /\ tasks = [t \in TaskNames |-> Starting]
    /\ \E config \in Configs : pc = [at |-> "chain_id", config |-> config]

NextStartup ==
    GetChainId \/ ResolveContractAddresses \/ ResolveStrkContractAddress

SpecStartup == InitStartup /\ [][NextStartup]_vars

----------------------------------------------------------------------------
(* The stream tasks (src/src/headers.rs, events.rs, transactions.rs): what *)
(* a task does with one message of its websocket.  An outcome says whether *)
(* the task exits with an error, and what it sends to which channel.       *)

\* what client.next() yields: a text frame with a notification of one of
\* the three methods of subscription::NotificationMethod, a text frame that
\* does not parse as a SubscriptionNotification, a frame that is not text,
\* or the end or failure of the connection
NewHeadsMethod == "starknet_subscriptionNewHeads"
EventsMethod == "starknet_subscriptionEvents"
ReorgMethod == "starknet_subscriptionReorg"

Notification(method, subscription_id, result) ==
    [frame |-> "Text", method |-> method,
     subscription_id |-> subscription_id, result |-> result]

\* a message without the params of a notification
NoResult == [absent |-> TRUE]

UnknownNotification ==
    [frame |-> "Text", method |-> "starknet_subscriptionPendingTransactions",
     subscription_id |-> 0, result |-> NoResult]
BinaryMessage == [frame |-> "Binary", method |-> "", subscription_id |-> 0,
                  result |-> NoResult]
ConnectionClosed == [frame |-> "Closed", method |-> "", subscription_id |-> 0,
                     result |-> NoResult]

\* a Felt of an event's data: the part above the low 64 bits, and the low
\* 64 bits
Felt(high, low) == [high |-> high, low |-> low]

\* u64::try_from(Felt) of events.rs 90
u64_try_from(felt) ==
    IF felt.high = 0 THEN [ok |-> TRUE, value |-> felt.low]
    ELSE [ok |-> FALSE, value |-> 0]

\* stand-ins for get_selector_from_name("StakerAttestationSuccessful")
\* (events.rs 21-22) and for the selector of another event
staker_attestation_successful_selector == 77
OtherSelector == 78

\* the task goes on with its loop and sends nothing
Continue == [exit |-> FALSE, send |-> "none", item |-> 0]
\* the task sends the item to the channel and goes on with its loop
Send(tx, item) == [exit |-> FALSE, send |-> tx, item |-> item]
\* fetch returns the error
ExitWithError == [exit |-> TRUE, send |-> "none", item |-> 0]

\* headers::fetch without the comparison of the subscription id
headers_fetch_AnyId(subscription_id, message) ==
    IF message.frame = "Closed" THEN ExitWithError
    ELSE IF message.frame # "Text" THEN Continue
    ELSE IF message.method = NewHeadsMethod
    THEN Send("new_heads_tx", message.result)
    ELSE IF message.method = ReorgMethod
    THEN Send("reorg_tx", message.result)
    ELSE IF message.method = EventsMethod
    THEN Continue
    ELSE ExitWithError

\* headers::fetch, the body of the loop (headers.rs 24-58)
headers_fetch(subscription_id, message) ==
    IF message.frame = "Closed" THEN ExitWithError
    ELSE IF message.frame # "Text" THEN Continue
    ELSE IF message.method = NewHeadsMethod
    THEN IF message.subscription_id = subscription_id
         THEN Send("new_heads_tx", message.result)
         ELSE Continue
    ELSE IF message.method = ReorgMethod
    THEN IF message.subscription_id = subscription_id
         THEN Send("reorg_tx", message.result)
         ELSE Continue
    ELSE IF message.method = EventsMethod
    THEN Continue
    ELSE ExitWithError

\* the parser taking the staker address from the first key
parse_staker_attestation_successful_FirstKey(event) ==
    IF Len(event.keys) < 2 THEN [ok |-> FALSE, event |-> 0]
    ELSE IF Len(event.data) < 1 THEN [ok |-> FALSE, event |-> 0]
    ELSE IF ~u64_try_from(event.data[1]).ok THEN [ok |-> FALSE, event |-> 0]
    ELSE [ok |-> TRUE,
          event |-> [staker_address |-> event.keys[1],
                     epoch_id |-> u64_try_from(event.data[1]).value]]

\* events.rs 86-97
parse_staker_attestation_successful(event) ==
    IF Len(event.keys) < 2 THEN [ok |-> FALSE, event |-> 0]
    ELSE IF Len(event.data) < 1 THEN [ok |-> FALSE, event |-> 0]
    ELSE IF ~u64_try_from(event.data[1]).ok THEN [ok |-> FALSE, event |-> 0]
    ELSE [ok |-> TRUE,
          event |-> [staker_address |-> event.keys[2],
                     epoch_id |-> u64_try_from(event.data[1]).value]]

\* events::fetch, the body of the loop (events.rs 38-83)
events_fetch(subscription_id, message) ==
    IF message.frame = "Closed" THEN ExitWithError
    ELSE IF message.frame # "Text" THEN Continue
    ELSE IF message.method = EventsMethod
    THEN IF message.subscription_id = subscription_id
         THEN LET selector == IF Len(message.result.keys) > 0
                              THEN message.result.keys[1] ELSE 0
              IN  IF selector = staker_attestation_successful_selector
                  THEN LET parsed ==
                               parse_staker_attestation_successful(message.result)
                       IN  IF parsed.ok THEN Send("events_tx", parsed.event)
                           ELSE Continue
                  ELSE Continue
         ELSE Continue
    ELSE IF message.method = ReorgMethod
    THEN IF message.subscription_id = subscription_id
         THEN Send("reorg_tx", message.result)
         ELSE Continue
    ELSE IF message.method = NewHeadsMethod
    THEN Continue
    ELSE ExitWithError

----------------------------------------------------------------------------
(* Specification SpecLoop: main's select loop (src/src/main.rs, lines      *)
(* 265-371) together with the three fetcher tasks it supervises.  The      *)
(* tasks run concurrently with main: they receive from their websockets    *)
(* and send to the channels while main is inside a branch of the select.   *)

\* the messages the node sends in this specification
LoopHeaders == {[block_number |-> 1, block_hash |-> 21]}

ReorgDatas == {[starting_block_number |-> 1, ending_block_number |-> 1]}

EmittedEvents ==
    [keys : {<<>>, <<staker_attestation_successful_selector>>,
             <<staker_attestation_successful_selector, 1>>,
             <<OtherSelector, 1>>},
     data : {<<>>, <<Felt(0, 1)>>, <<Felt(1, 1)>>}]

MessageIds == SubscriptionIds \cup {ForeignSubscriptionId}

Messages ==
    {Notification(NewHeadsMethod, id, header) :
        id \in MessageIds, header \in LoopHeaders}
    \cup {Notification(EventsMethod, id, event) :
        id \in MessageIds, event \in EmittedEvents}
    \cup {Notification(ReorgMethod, id, reorg) :
        id \in MessageIds, reorg \in ReorgDatas}
    \cup {UnknownNotification, BinaryMessage, ConnectionClosed}

\* main has not returned: the runtime and its tasks are alive
Alive == pc.at # "stopped"

\* Sender::send waits until the channel has room
CanSend(o) ==
    /\ o.send = "new_heads_tx" => Len(new_heads) < QueueCap
    /\ o.send = "events_tx" => Len(events) < QueueCap
    /\ o.send = "reorg_tx" => Len(reorgs) < QueueCap

Sent(o) ==
    /\ new_heads' = IF o.send = "new_heads_tx"
                    THEN Append(new_heads, o.item) ELSE new_heads
    /\ events' = IF o.send = "events_tx" THEN Append(events, o.item) ELSE events
    /\ reorgs' = IF o.send = "reorg_tx" THEN Append(reorgs, o.item) ELSE reorgs

\* a spawned task has slept TASK_RESTART_DELAY (not at its first start)
\* and subscribes: subscription::subscribe gives it its subscription id or
\* fails, and a failure is the error fetch returns (headers.rs 13-17,
\* events.rs 23-31, transactions.rs 12-13)
TaskSubscribes ==
    /\ Alive
    /\ \E t \in TaskNames :
          /\ tasks[t] = Starting
          /\ \/ tasks' = [tasks EXCEPT ![t] = Running(SubscriptionIdOf(t))]
             \/ tasks' = [tasks EXCEPT ![t] = Exited]
    /\ UNCHANGED <<state, last, metrics, submitted, epoch_acc, canonical,
                   branch, new_heads, reorgs, events, pc>>

\* one turn of the loop of headers::fetch
HeadersTask ==
    /\ Alive
    /\ tasks["headers"].status = "running"
    /\ \E message \in Messages :
          LET o == headers_fetch(tasks["headers"].subscription_id, message)
          IN  /\ CanSend(o)
              /\ Sent(o)
              /\ tasks' = IF o.exit THEN [tasks EXCEPT !["headers"] = Exited]
                          ELSE tasks
    /\ UNCHANGED <<state, last, metrics, submitted, epoch_acc, canonical,
                   branch, pc>>

\* one turn of the loop of events::fetch
EventsTask ==
    /\ Alive
    /\ tasks["events"].status = "running"
    /\ \E message \in Messages :
          LET o == events_fetch(tasks["events"].subscription_id, message)
          IN  /\ CanSend(o)
              /\ Sent(o)
              /\ tasks' = IF o.exit THEN [tasks EXCEPT !["events"] = Exited]
                          ELSE tasks
    /\ UNCHANGED <<state, last, metrics, submitted, epoch_acc, canonical,
                   branch, pc>>

\* transactions::fetch (transactions.rs 16-27): a received transaction goes
\* through its channel to the branch of main that only logs it (main.rs
\* 331-340); a failed receive is the error fetch returns
TransactionsTask ==
    /\ Alive
    /\ tasks["transactions"].status = "running"
    /\ \E received \in {"Ok", "Err"} :
          tasks' = IF received = "Err"
                   THEN [tasks EXCEPT !["transactions"] = Exited]
                   ELSE tasks
    /\ UNCHANGED <<state, last, metrics, submitted, epoch_acc, canonical,
                   branch, new_heads, reorgs, events, pc>>

\* a faulty variant of select_polls: the branches are spawned and the
\* select is polled again while one of them is running
select_polls_WhileInBranch(position) == position.at # "stopped"

\* the select is polled when main is at the head of its loop: the body of
\* a branch is awaited inside the branch (main.rs 266, 306, 345, 363-364)
select_polls(position) == position.at = "select"

\* main.rs 267-274 and 371-376: TERM or INT breaks the loop and main
\* returns Ok(()): the receivers are dropped with what the channels hold,
\* and the runtime ends the tasks
Signal ==
    /\ select_polls(pc)
    /\ \E signal \in {"TERM", "INT"} :
          pc' = [at |-> "stopped", by |-> signal, result |-> "Ok"]
    /\ new_heads' = <<>>
    /\ events' = <<>>
    /\ reorgs' = <<>>
    /\ tasks' = [t \in TaskNames |-> Exited]
    /\ UNCHANGED <<state, last, metrics, submitted, epoch_acc, canonical,
                   branch>>

\* a faulty variant of task_exit_branch: the error of the task is returned
\* from main
task_exit_branch_Returns(position) ==
    [task |-> Exited,
     pc |-> [at |-> "stopped", by |-> "task", result |-> "Err"]]

\* the three task-exit branches of the select (main.rs 275-298): the error
\* is logged, the same fetch is spawned again with clones of the same
\* senders behind a sleep of TASK_RESTART_DELAY, and the loop goes on
task_exit_branch(position) == [task |-> Starting, pc |-> position]

\* a faulty variant of handle_ready: the branch is also taken while the
\* task is running
handle_ready_WhileRunning(task) == task.status # "starting"

\* `&mut handle' in the select (main.rs 275, 283, 291): the JoinHandle of
\* a task is ready when the task has returned
handle_ready(task) == task = Exited

\* main.rs 275-298: the handle of a task has completed
RestartTask ==
    /\ select_polls(pc)
    /\ \E t \in TaskNames :
          /\ handle_ready(tasks[t])
          /\ tasks' = [tasks EXCEPT ![t] = task_exit_branch(pc).task]
          /\ pc' = task_exit_branch(pc).pc
    /\ UNCHANGED <<state, last, metrics, submitted, epoch_acc, canonical,
                   branch, new_heads, reorgs, events>>

\* main.rs 299-304: new_heads_rx.recv() gives a header
RecvHeader ==
    /\ select_polls(pc)
    /\ new_heads # <<>>
    /\ pc' = [at |-> "header", item |-> Head(new_heads)]
    /\ new_heads' = Tail(new_heads)
    /\ UNCHANGED <<state, last, metrics, submitted, epoch_acc, canonical,
                   branch, reorgs, events, tasks>>

\* main.rs 305-317: handle_new_block_header has returned
HeaderHandled ==
    /\ pc.at = "header"
    /\ \E r \in handle_new_block_header(state, Config.staker_operational_address,
                                         pc.item.block_number,
                                         pc.item.block_hash) :
          HandleHeader(r)
    /\ pc' = AtSelect
    /\ UNCHANGED <<last, metrics, submitted, epoch_acc, canonical, branch,
                   new_heads, reorgs, events, tasks>>

\* main.rs 321-330: events_rx.recv() gives an event; handle_new_event does
\* not await
RecvEvent ==
    /\ select_polls(pc)
    /\ events # <<>>
    /\ HandleEvent(Head(events))
    /\ events' = Tail(events)
    /\ UNCHANGED <<last, metrics, submitted, epoch_acc, canonical, branch,
                   new_heads, reorgs, tasks, pc>>

\* main.rs 341-344: reorg_rx.recv() gives a reorg notification
RecvReorg ==
    /\ select_polls(pc)
    /\ reorgs # <<>>
    /\ pc' = [at |-> "reorg", item |-> Head(reorgs)]
    /\ reorgs' = Tail(reorgs)
    /\ UNCHANGED <<state, last, metrics, submitted, epoch_acc, canonical,
                   branch, new_heads, events, tasks>>

\* main.rs 345-363: get_attestation_info has returned; on success the
\* State is rebuilt, on failure main sleeps TASK_RESTART_DELAY
Reinitialise ==
    /\ pc.at = "reorg"
    /\ \E o \in reorg_branch(state, Config.staker_operational_address) :
          /\ HandleReorg(o)
          /\ pc' = IF o.ok THEN AtSelect
                   ELSE [at |-> "resend", item |-> pc.item]
    /\ UNCHANGED <<last, metrics, submitted, epoch_acc, canonical, branch,
                   new_heads, reorgs, events, tasks>>

\* main.rs 364: reorg_tx.send(reorg).await, which waits until the channel
\* has room
ResendReorg ==
    /\ pc.at = "resend"
    /\ Len(reorgs) < QueueCap
    /\ reorgs' = Append(reorgs, pc.item)
    /\ pc' = AtSelect
    /\ UNCHANGED <<state, last, metrics, submitted, epoch_acc, canonical,
                   branch, new_heads, events, tasks>>

\* main.rs 202-264: the tasks are spawned, the State is built from the
\* first attestation info, main enters its loop
InitLoop ==
    /\ InitState
    /\ canonical = <<21>>
    /\ branch = 21
    /\ new_heads = <<>>
    /\ reorgs = <<>>
    /\ events = <<>>
    /\ tasks = [t \in TaskNames |-> Starting]
    /\ pc = AtSelect

NextLoop ==
    \/ TaskSubscribes \/ HeadersTask \/ EventsTask \/ TransactionsTask
    \/ Signal \/ RestartTask
    \/ RecvHeader \/ HeaderHandled \/ RecvEvent
    \/ RecvReorg \/ Reinitialise \/ ResendReorg

SpecLoop == InitLoop /\ [][NextLoop]_vars

----------------------------------------------------------------------------
(* Properties                                                              *)

\* the outcomes of handling a header of the given block in the current state
Handled(block_number, block_hash) ==
    handle_new_block_header(state, Config.staker_operational_address,
                            block_number, block_hash)

\* the calls of the given operation, by their position in the call sequence
CallsOf(calls, op) == {i \in DOMAIN calls : calls[i].op = op}

\* C1: while the state is AttestationSubmitted, handling a header makes an
\* attest call only after attestation_status of the held transaction hash
\* answered Rejected or Accepted-and-Reverted in the same handling; after
\* the answers Received, Accepted-and-Succeeded or an error of the query,
\* and when the window has closed, it makes no attest call.
C1_AttestOnlyAfterTerminalFailure ==
    state.tag = "AttestationSubmitted" =>
      \A block_number \in BlockNumbers, block_hash \in BlockHashes :
        \A r \in Handled(block_number, block_hash) :
          /\ \A j \in CallsOf(r.calls, "attest") :
                \E i \in CallsOf(r.calls, "attestation_status") :
                    /\ i < j
                    /\ r.calls[i].arg = state.transaction_hash
                    /\ r.calls[i].res \in TerminalFailures
          /\ HasAnswer(r.calls, "attestation_status",
                       {"Received", "AcceptedOnL2Succeeded",
                        "AcceptedOnL1Succeeded", "Err"})
                => ~HasCall(r.calls, "attest")
          /\ block_number >= state.attestation_params.end_of_attestation_window
                => ~HasCall(r.calls, "attest")

\* a header handled in AttestationSubmitted saw the transaction fail and
\* submitted a new one
C1_Witness ==
    /\ last.kind = "header"
    /\ last.from = "AttestationSubmitted"
    /\ last.on = "AttestationSubmitted"
    /\ last.d.failure = 1
    /\ last.d.submitted = 1
    /\ state.tag = "AttestationSubmitted"

\* C2: at most one attestation transaction is in flight per (epoch_id,
\* staker_address): whatever headers, events and reorgs were handled, also
\* when the State was rebuilt for the same epoch_id, handling a header makes
\* no attest call for a pair that has a submitted transaction, unless that
\* transaction was observed Rejected or Reverted.
C2_AtMostOneInFlight ==
    \A block_number \in BlockNumbers, block_hash \in BlockHashes :
      \A r \in Handled(block_number, block_hash) :
        (/\ HasCall(r.calls, "attest")
         /\ EpochKey(r.dispatched.attestation_info) \in submitted)
          => ObservedFailure(r.calls)

\* C3 as stated: once the assigned block and a block in the window were
\* handled in an epoch, the submitted counter has increased by exactly 1
\* since the State of that epoch was built.
C3_ExactlyOneSubmission ==
    epoch_acc.in_window_block => metrics.submitted = 1

\* C3: since the State of an epoch was built, the submitted counter has
\* increased by at most 1 plus the number of times a submitted transaction
\* was observed Rejected or Reverted (each allows one more submission), and
\* by at least 1 whenever the state is AttestationSubmitted: by exactly 1
\* when the state is AttestationSubmitted and no transaction was observed
\* to fail.
C3_SubmissionsBoundedByFailures ==
    /\ metrics.submitted <= 1 + epoch_acc.failed_statuses
    /\ state.tag = "AttestationSubmitted" => metrics.submitted >= 1
    /\ (state.tag = "AttestationSubmitted" /\ epoch_acc.failed_statuses = 0)
          => metrics.submitted = 1

\* the assigned block and a block in the window were handled, one
\* transaction was observed failed and a second one was submitted
C3_Witness ==
    /\ epoch_acc.assigned_block
    /\ epoch_acc.in_window_block
    /\ epoch_acc.failed_statuses = 1
    /\ metrics.submitted = 2
    /\ state.tag = "AttestationSubmitted"

\* the supervisor's state after it handled a header with outcome r
AfterHeader(old_state, r) == header_branch(old_state, r)

\* the outcomes of handling the same header again
Replayed(s1, block_number, block_hash) ==
    handle_new_block_header(s1, Config.staker_operational_address,
                            block_number, block_hash)

\* the states the supervisor can be in after it handled the header once
AfterFirst(block_number, block_hash) ==
    {AfterHeader(state, r1) : r1 \in Handled(block_number, block_hash)}

\* C4 as stated: handling the same header a second time leaves State and
\* counters exactly as they were after the first handling.
C4_ReplayIsNoOp ==
    \A block_number \in BlockNumbers, block_hash \in BlockHashes :
      \A s1 \in AfterFirst(block_number, block_hash) :
        \A r2 \in Replayed(s1, block_number, block_hash) :
          AfterHeader(s1, r2) = s1 /\ r2.d = NoDelta

\* the block lies in the epoch of the state, and the state is
\* BeforeBlockToAttest before its block, Attesting before its window, or
\* WaitingForNextEpoch
Quiet(s, block_number) ==
    /\ block_number >= s.attestation_info.current_epoch_starting_block
    /\ block_number < s.attestation_info.current_epoch_starting_block
                        + s.attestation_info.epoch_len
    /\ \/ s.tag = "BeforeBlockToAttest" /\ block_number < s.block_to_attest
       \/ /\ s.tag = "Attesting"
          /\ block_number < s.attestation_params.start_of_attestation_window
       \/ s.tag = "WaitingForNextEpoch"

\* C4: handling the same header a second time makes no RPC call and leaves
\* State and counters exactly as after the first handling when, after the
\* first handling, the block lies in the epoch of the state and the state is
\* BeforeBlockToAttest before its block, Attesting before its window, or
\* WaitingForNextEpoch; in every other case the second handling makes RPC
\* calls again, and some answers change State or counters.
C4_ReplayIsNoOpWhenQuiet ==
    \A block_number \in BlockNumbers, block_hash \in BlockHashes :
      \A s1 \in AfterFirst(block_number, block_hash) :
        LET replays == Replayed(s1, block_number, block_hash)
        IN  IF Quiet(s1, block_number)
            THEN \A r2 \in replays :
                    /\ r2.ok
                    /\ r2.state = s1
                    /\ r2.calls = <<>>
                    /\ r2.d = NoDelta
            ELSE /\ \A r2 \in replays :
                       r2.calls # <<>> \/ AfterHeader(s1, r2) # s1
                 /\ \E r2 \in replays :
                       AfterHeader(s1, r2) # s1 \/ r2.d # NoDelta

\* a header was handled in Attesting before the window, and left the state
\* Attesting
C4_Witness ==
    /\ last.kind = "header"
    /\ last.ok
    /\ ~last.refetch
    /\ last.on = "Attesting"
    /\ last.arm = "Less"
    /\ state.tag = "Attesting"

\* C5 as stated: the header handled next after a reorg notification was
\* processed causes a get_attestation_info call.
C5_NextHeaderRefetches ==
    (last.kind = "header" /\ last.after_reorg) => last.refetch

\* C5: processing a reorg notification itself calls get_attestation_info
\* and, when the call succeeds, rebuilds the State from the answer; the
\* header handled next calls get_attestation_info if and only if its block
\* lies outside the epoch of the State the reorg left.
C5_ReorgRefetchesNextHeaderOnlyOutsideEpoch ==
    last.kind = "reorg" =>
      /\ last.refetch
      /\ last.ok => state = from_attestation_info(state.attestation_info)
      /\ \A block_number \in BlockNumbers, block_hash \in BlockHashes :
           \A r \in Handled(block_number, block_hash) :
             HasCall(r.calls, "get_attestation_info")
               <=> ~(/\ block_number >=
                          state.attestation_info.current_epoch_starting_block
                     /\ block_number <
                          state.attestation_info.current_epoch_starting_block
                            + state.attestation_info.epoch_len)

\* the header handled next after a reorg made no get_attestation_info call
C5_Witness ==
    /\ last.kind = "header"
    /\ last.after_reorg
    /\ last.ok
    /\ ~last.refetch

\* the call that failed: the last call of an outcome that is an error
FailedCall(r) == r.calls[Len(r.calls)]

\* every error of handle_new_block_header is a failed get_attestation_info
\* on rollover, a failed get_block_hash on late start, or a failed
\* attestation_done_in_current_epoch query of check_and_submit_attestation
ErrorsOfHandling ==
    \A block_number \in BlockNumbers, block_hash \in BlockHashes :
      \A r \in Handled(block_number, block_hash) :
        ~r.ok =>
          /\ r.calls # <<>>
          /\ FailedCall(r).res = "Err"
          /\ \/ /\ FailedCall(r).op = "get_attestation_info"
                /\ Len(r.calls) = 1
                /\ r.dispatched = state
             \/ /\ FailedCall(r).op = "get_block_hash"
                /\ r.dispatched.tag = "BeforeBlockToAttest"
                /\ block_number > r.dispatched.block_to_attest
             \/ /\ FailedCall(r).op = "attestation_done_in_current_epoch"
                /\ r.dispatched.tag \in {"Attesting", "AttestationSubmitted"}
                /\ r.dispatched.tag = "Attesting" =>
                     block_number >=
                       r.dispatched.attestation_params.start_of_attestation_window
                /\ r.dispatched.tag = "AttestationSubmitted" =>
                     ObservedFailure(r.calls)
                /\ block_number <
                     r.dispatched.attestation_params.end_of_attestation_window

\* the state the supervisor takes on success is the returned one
ReplacedOnSuccess ==
    \A block_number \in BlockNumbers, block_hash \in BlockHashes :
      \A r \in Handled(block_number, block_hash) :
        r.ok => AfterHeader(state, r) = r.state

\* a header step that ended in an error leaves the state as it was
RestoredOnError ==
    (last'.kind = "header" /\ ~last'.ok) => state' = state

\* C6: when handle_new_block_header returns an error (a failed
\* get_attestation_info on rollover, a failed get_block_hash on late start,
\* or a failed attestation-done query in check_and_submit_attestation) the
\* supervisor's state after the step equals the snapshot taken before the
\* call; on success the state is replaced with the returned value.
C6_SnapshotRestoredOnError ==
    /\ []ErrorsOfHandling
    /\ []ReplacedOnSuccess
    /\ [][RestoredOnError]_vars

\* a header outside the epoch rebuilt the State, and then failed on
\* get_block_hash: the state is still the one of before, WaitingForNextEpoch
C6_Witness ==
    /\ last.kind = "header"
    /\ ~last.ok
    /\ last.refetch
    /\ last.from = "WaitingForNextEpoch"
    /\ last.on = "BeforeBlockToAttest"
    /\ last.arm = "Greater"
    /\ state.tag = "WaitingForNextEpoch"

\* the block lies in [current_epoch_starting_block,
\* current_epoch_starting_block + epoch_len) of the info of the state
InsideEpoch(s, block_number) ==
    /\ block_number >= s.attestation_info.current_epoch_starting_block
    /\ block_number < s.attestation_info.current_epoch_starting_block
                        + s.attestation_info.epoch_len

\* the match of handle_new_block_header was run: the handling did not end
\* on a failed get_attestation_info
MatchRan(r) == ~HasAnswer(r.calls, "get_attestation_info", {"Err"})

\* the calls the match arm made: the calls after those of the rollover
ArmCalls(r) ==
    IF Rebuilt(r.calls) THEN SubSeq(r.calls, 3, Len(r.calls)) ELSE r.calls

\* C7: handle_new_block_header calls get_attestation_info exactly when the
\* block of the header is outside the epoch of the embedded info, also
\* below its start; on success it rebuilds the state as BeforeBlockToAttest
\* with the new info and its computed block_to_attest and dispatches the
\* same header against it; inside the epoch it makes no such call and
\* the embedded info stays.
C7_RolloverExactlyOutsideEpoch ==
    \A block_number \in BlockNumbers, block_hash \in BlockHashes :
      \A r \in Handled(block_number, block_hash) :
        IF InsideEpoch(state, block_number)
        THEN /\ ~HasCall(r.calls, "get_attestation_info")
             /\ r.dispatched = state
             /\ AfterHeader(state, r).attestation_info = state.attestation_info
        ELSE /\ CallsOf(r.calls, "get_attestation_info") = {1}
             /\ r.calls[1].who = Config.staker_operational_address
             /\ r.calls[1].res = "Err" =>
                   ~r.ok /\ Len(r.calls) = 1 /\ AfterHeader(state, r) = state
             /\ r.calls[1].res = "Ok" =>
                   LET new_info == r.dispatched.attestation_info
                       block_to_attest ==
                           calculate_expected_attestation_block(new_info)
                   IN  /\ new_info \in ChainInfos(Config.staker_operational_address)
                       /\ r.dispatched =
                            BeforeBlockToAttest(new_info, block_to_attest)
                       /\ r.ok => r.state.attestation_info = new_info
                       /\ block_number < block_to_attest =>
                            r.ok /\ r.state = r.dispatched
                       /\ block_number = block_to_attest =>
                            /\ r.ok
                            /\ r.state.tag = "Attesting"
                            /\ r.state.attestation_params.block_hash = block_hash
                       /\ block_number > block_to_attest =>
                            /\ Len(ArmCalls(r)) = 1
                            /\ ArmCalls(r)[1].op = "get_block_hash"
                            /\ ArmCalls(r)[1].arg = block_to_attest

\* the first header of the next epoch was handled in WaitingForNextEpoch:
\* the State was rebuilt for epoch 2, whose block to attest is this block
C7_Witness ==
    /\ last.kind = "header"
    /\ last.refetch
    /\ last.ok
    /\ last.from = "WaitingForNextEpoch"
    /\ last.on = "BeforeBlockToAttest"
    /\ last.arm = "Equal"
    /\ state.tag = "Attesting"
    /\ state.attestation_info.epoch_id = 2

\* C8: when the match runs on BeforeBlockToAttest with block_to_attest B,
\* a header with n < B leaves the state unchanged and makes no RPC call; a
\* header with n = B moves to Attesting with the block hash of the header,
\* start = B + 10 and end = B + attestation_window, and makes no attest call.
C8_BeforeBlockToAttestArm ==
    \A block_number \in BlockNumbers, block_hash \in BlockHashes :
      \A r \in Handled(block_number, block_hash) :
        (MatchRan(r) /\ r.dispatched.tag = "BeforeBlockToAttest") =>
          LET B == r.dispatched.block_to_attest
              info == r.dispatched.attestation_info
          IN  /\ block_number < B =>
                   /\ r.ok
                   /\ r.state = r.dispatched
                   /\ ArmCalls(r) = <<>>
                   /\ r.d = NoDelta
              /\ block_number = B =>
                   /\ r.ok
                   /\ r.state =
                        Attesting(info,
                          [block_hash |-> block_hash,
                           start_of_attestation_window |-> B + 10,
                           end_of_attestation_window |->
                               B + info.attestation_window])
                   /\ ArmCalls(r) = <<>>
                   /\ r.d = NoDelta

\* the header of the block to attest was handled in BeforeBlockToAttest
C8_Witness ==
    /\ last.kind = "header"
    /\ ~last.refetch
    /\ last.from = "BeforeBlockToAttest"
    /\ last.arm = "Equal"
    /\ last.ok
    /\ state.tag = "Attesting"
    /\ state.attestation_params.end_of_attestation_window
         = state.attestation_params.start_of_attestation_window
           - 10 + state.attestation_info.attestation_window

\* C9: when the match runs on BeforeBlockToAttest with block_to_attest B,
\* a header with n > B makes the call get_block_hash(B); when the call
\* succeeds the state is Attesting with the returned hash, start = B + 10
\* and end = B + attestation_window, and no attest call is made; when it
\* fails the handling ends in an error and the supervisor keeps its state.
C9_LateStart ==
    \A block_number \in BlockNumbers, block_hash \in BlockHashes :
      \A r \in Handled(block_number, block_hash) :
        (/\ MatchRan(r)
         /\ r.dispatched.tag = "BeforeBlockToAttest"
         /\ block_number > r.dispatched.block_to_attest) =>
          LET B == r.dispatched.block_to_attest
              info == r.dispatched.attestation_info
              calls == ArmCalls(r)
          IN  /\ Len(calls) = 1
              /\ calls[1].op = "get_block_hash"
              /\ calls[1].arg = B
              /\ r.d = NoDelta
              /\ calls[1].res = "Ok" =>
                   /\ r.ok
                   /\ r.state =
                        Attesting(info,
                          [block_hash |-> calls[1].val,
                           start_of_attestation_window |-> B + 10,
                           end_of_attestation_window |->
                               B + info.attestation_window])
              /\ calls[1].res # "Ok" =>
                   /\ ~r.ok
                   /\ AfterHeader(state, r) = state
                   /\ r.dispatched = state =>
                        AfterHeader(state, r).tag = "BeforeBlockToAttest"

\* a header past the block to attest was handled in BeforeBlockToAttest and
\* the block hash was fetched
C9_Witness ==
    /\ last.kind = "header"
    /\ ~last.refetch
    /\ last.from = "BeforeBlockToAttest"
    /\ last.arm = "Greater"
    /\ last.ok
    /\ state.tag = "Attesting"

C11_EventConfirmsOwnEpochOnly ==
    \A event \in Events :
      LET e == handle_new_event(state, event)
      IN  IF /\ state.tag \in {"Attesting", "AttestationSubmitted"}
             /\ state.attestation_info.staker_address = event.staker_address
             /\ state.attestation_info.epoch_id = event.epoch_id
          THEN /\ e.state = [tag |-> "WaitingForNextEpoch",
                             attestation_info |-> state.attestation_info]
               /\ e.d = [submitted |-> 0, failure |-> 0,
                         confirmed |-> 1, missed |-> 0]
          ELSE /\ e.state = state
               /\ e.d = NoDelta

\* an event confirmed the attestation of a submitted transaction
C11_Witness ==
    /\ last.kind = "event"
    /\ last.from = "AttestationSubmitted"
    /\ last.d.confirmed = 1
    /\ state.tag = "WaitingForNextEpoch"

\* the match runs on AttestationSubmitted and the block of the header is
\* not past the window
PollsStatus(r, block_number) ==
    /\ MatchRan(r)
    /\ r.dispatched.tag = "AttestationSubmitted"
    /\ block_number < r.dispatched.attestation_params.end_of_attestation_window

\* C12: in AttestationSubmitted with a header not past the window, the
\* status of the held transaction is asked for, and the status AcceptedOnL2
\* or AcceptedOnL1 with execution Succeeded increases the confirmed counter
\* by exactly 1 and gives WaitingForNextEpoch, with no attest call.
C12_AcceptedSucceededConfirms ==
    \A block_number \in BlockNumbers, block_hash \in BlockHashes :
      \A r \in Handled(block_number, block_hash) :
        PollsStatus(r, block_number) =>
          /\ r.calls # <<>>
          /\ r.calls[1].op = "attestation_status"
          /\ r.calls[1].arg = r.dispatched.transaction_hash
          /\ r.calls[1].res \in {"AcceptedOnL2Succeeded", "AcceptedOnL1Succeeded"} =>
               /\ Len(r.calls) = 1
               /\ r.ok
               /\ r.state = [tag |-> "WaitingForNextEpoch",
                             attestation_info |-> r.dispatched.attestation_info]
               /\ r.d = [submitted |-> 0, failure |-> 0,
                         confirmed |-> 1, missed |-> 0]

\* a header in AttestationSubmitted found the transaction accepted
C12_Witness ==
    /\ last.kind = "header"
    /\ last.from = "AttestationSubmitted"
    /\ last.on = "AttestationSubmitted"
    /\ last.arm \in {"Less", "Equal"}
    /\ last.d.confirmed = 1
    /\ state.tag = "WaitingForNextEpoch"

ClosesWindow(block_number) ==
    /\ state.tag \in {"Attesting", "AttestationSubmitted"}
    /\ block_number >= state.attestation_params.end_of_attestation_window
    /\ block_number >= state.attestation_info.current_epoch_starting_block
    /\ block_number < state.attestation_info.current_epoch_starting_block
                        + state.attestation_info.epoch_len

\* C14: a failed attest call (AttestationFailed or Other) is counted as one
\* failure, the handling of the header still succeeds and the state is
\* Attesting with the same info and params; from Attesting every header
\* inside the window asks the is-done query again and calls attest again
\* when the answer is false; and when the attest call has failed for every
\* header inside the window, a header of the epoch with n >= end gives
\* WaitingForNextEpoch without an attest call, and increases the missed
\* counter by exactly 1 when the is-done query answers false or fails, by
\* 0 when it answers true.
C14_FailedAttestIsRetriedUntilWindowEnd ==
    \A block_number \in BlockNumbers, block_hash \in BlockHashes :
      \A r \in Handled(block_number, block_hash) :
        /\ HasAnswer(r.calls, "attest", {"AttestationFailed", "Other"}) =>
             /\ r.ok
             /\ r.state = [tag |-> "Attesting",
                           attestation_info |-> r.dispatched.attestation_info,
                           attestation_params |-> r.dispatched.attestation_params]
             /\ r.d = [submitted |-> 0,
                       failure |-> 1 + (IF HasAnswer(r.calls, "attestation_status",
                                                     TerminalFailures)
                                        THEN 1 ELSE 0),
                       confirmed |-> 0, missed |-> 0]
        /\ (/\ state.tag = "Attesting"
            /\ InsideEpoch(state, block_number)
            /\ block_number >= state.attestation_params.start_of_attestation_window
            /\ block_number < state.attestation_params.end_of_attestation_window) =>
             /\ r.calls[1].op = "attestation_done_in_current_epoch"
             /\ r.calls[1].res = "false" =>
                  /\ Len(r.calls) = 2
                  /\ r.calls[2].op = "attest"
                  /\ r.calls[2].arg = state.attestation_params.block_hash
        /\ (/\ state.tag = "Attesting"
            /\ epoch_acc.attest_failed = "every"
            /\ ClosesWindow(block_number)) =>
             /\ r.ok
             /\ r.state = [tag |-> "WaitingForNextEpoch",
                           attestation_info |-> state.attestation_info]
             /\ Len(r.calls) = 1
             /\ r.calls[1].op = "attestation_done_in_current_epoch"
             /\ r.d = [submitted |-> 0, failure |-> 0, confirmed |-> 0,
                       missed |-> IF r.calls[1].res \in {"false", "Err"}
                                  THEN 1 ELSE 0]

\* every header inside the window had a failed attest call, twice, and the
\* header that closed the window counted the epoch as missed
C14_Witness ==
    /\ epoch_acc.attest_failed = "every"
    /\ metrics = [submitted |-> 0, failure |-> 2, confirmed |-> 0, missed |-> 1]
    /\ state.tag = "WaitingForNextEpoch"

\* C14 as stated: when the attest call has failed for every header inside
\* the window, the header with n >= end finds the attestation not done and
\* increases the missed counter by exactly 1
C14_WindowEndFindsNotDone ==
    \A block_number \in BlockNumbers, block_hash \in BlockHashes :
      \A r \in Handled(block_number, block_hash) :
        (/\ state.tag = "Attesting"
         /\ epoch_acc.attest_failed = "every"
         /\ ClosesWindow(block_number)) =>
          /\ HasAnswer(r.calls, "attestation_done_in_current_epoch", {"false"})
          /\ r.d.missed = 1
          /\ r.state.tag = "WaitingForNextEpoch"

\* C15: when the match runs on Attesting or AttestationSubmitted and the
\* block of the header is at or past the end of the window, the handling
\* succeeds and the state becomes WaitingForNextEpoch with the same info;
\* the only call is the is-done query for the staker (no attest call, no
\* status poll); the missed counter increases by 1 if and only if the
\* query answered false or failed, and no other counter changes.
C15_ClosedWindowAlwaysWaits ==
    \A block_number \in BlockNumbers, block_hash \in BlockHashes :
      \A r \in Handled(block_number, block_hash) :
        (/\ MatchRan(r)
         /\ r.dispatched.tag \in {"Attesting", "AttestationSubmitted"}
         /\ block_number >=
              r.dispatched.attestation_params.end_of_attestation_window) =>
          /\ r.ok
          /\ r.state = [tag |-> "WaitingForNextEpoch",
                        attestation_info |-> r.dispatched.attestation_info]
          /\ Len(r.calls) = 1
          /\ r.calls[1].op = "attestation_done_in_current_epoch"
          /\ r.calls[1].who = r.dispatched.attestation_info.staker_address
          /\ r.calls[1].res \in {"false", "Err"} =>
               r.d = [submitted |-> 0, failure |-> 0, confirmed |-> 0,
                      missed |-> 1]
          /\ r.calls[1].res = "true" => r.d = NoDelta
          /\ r.calls[1].res \in {"false", "Err", "true"}

\* a header past the window found a submitted attestation unconfirmed and
\* counted the epoch as missed
C15_Witness ==
    /\ last.kind = "header"
    /\ last.on = "AttestationSubmitted"
    /\ last.arm = "Greater"
    /\ last.ok
    /\ last.d.missed = 1
    /\ state.tag = "WaitingForNextEpoch"

\* the handling runs check_and_submit_attestation: the match runs on
\* Attesting inside the window, or on AttestationSubmitted not past the
\* window with a status poll that answered Rejected or Reverted
RunsCheckAndSubmit(r, block_number) ==
    \/ /\ MatchRan(r)
       /\ r.dispatched.tag = "Attesting"
       /\ block_number >=
            r.dispatched.attestation_params.start_of_attestation_window
       /\ block_number < r.dispatched.attestation_params.end_of_attestation_window
    \/ /\ PollsStatus(r, block_number)
       /\ r.calls[1].res \in TerminalFailures

\* C16: every attest call of a header handling is made by
\* check_and_submit_attestation, as the last call, directly after an
\* is-done query for the staker_address of the held info that answered
\* false; when check_and_submit_attestation runs and the query answers
\* true, the state becomes WaitingForNextEpoch with no attest call and no
\* counter changed by it; when the query fails, the handling ends in an
\* error with no attest call.
C16_AttestOnlyAfterNotDone ==
    \A block_number \in BlockNumbers, block_hash \in BlockHashes :
      \A r \in Handled(block_number, block_hash) :
        /\ \A j \in CallsOf(r.calls, "attest") :
              /\ RunsCheckAndSubmit(r, block_number)
              /\ j > 1
              /\ j = Len(r.calls)
              /\ r.calls[j - 1].op = "attestation_done_in_current_epoch"
              /\ r.calls[j - 1].who = r.dispatched.attestation_info.staker_address
              /\ r.calls[j - 1].res = "false"
              /\ r.calls[j].who = r.dispatched.attestation_info.operational_address
        /\ RunsCheckAndSubmit(r, block_number) =>
              LET k == IF r.dispatched.tag = "Attesting" THEN 1 ELSE 2
                  before == [submitted |-> 0, failure |-> k - 1,
                             confirmed |-> 0, missed |-> 0]
              IN  /\ Len(r.calls) >= k
                  /\ r.calls[k].op = "attestation_done_in_current_epoch"
                  /\ r.calls[k].who = r.dispatched.attestation_info.staker_address
                  /\ r.calls[k].res = "true" =>
                       /\ r.ok
                       /\ r.state =
                            [tag |-> "WaitingForNextEpoch",
                             attestation_info |-> r.dispatched.attestation_info]
                       /\ Len(r.calls) = k
                       /\ r.d = before
                  /\ r.calls[k].res = "Err" =>
                       /\ ~r.ok
                       /\ Len(r.calls) = k
                       /\ r.d = before

\* a header inside the window from Attesting: the attestation was not done,
\* attest was called and failed
C16_Witness ==
    /\ last.kind = "header"
    /\ last.on = "Attesting"
    /\ last.arm = "Equal"
    /\ last.ok
    /\ last.d = [submitted |-> 0, failure |-> 1, confirmed |-> 0, missed |-> 0]
    /\ state.tag = "Attesting"

\* the AttestationParams the BeforeBlockToAttest arm builds, for assigned
\* blocks of the first epoch and attestation windows from
\* MIN_ATTESTATION_WINDOW up to the length of the epoch
WindowParams ==
    {AttestationParams(block_hash,
                       block_to_attest + MIN_ATTESTATION_WINDOW,
                       block_to_attest + attestation_window) :
        block_hash \in BlockHashes,
        block_to_attest \in 0..(EpochLen - 1),
        attestation_window \in MIN_ATTESTATION_WINDOW..EpochLen}

\* C17: in_window(n) implements the half-open window [start, end): for
\* the params held by the state and for all params the arm can build, it
\* returns Less iff n < start, Equal iff start <= n < end, and Greater iff
\* n >= end.
C17_InWindowIsHalfOpen ==
    LET held == IF state.tag \in {"Attesting", "AttestationSubmitted"}
                THEN {state.attestation_params} ELSE {}
    IN  \A params \in WindowParams \cup held :
          \A n \in 0..(MaxBlock + EpochLen) :
            LET start == params.start_of_attestation_window
                end == params.end_of_attestation_window
            IN  /\ start <= end
                /\ in_window(params, n) \in {"Less", "Equal", "Greater"}
                /\ in_window(params, n) = "Less" <=> n < start
                /\ in_window(params, n) = "Equal" <=> (start <= n /\ n < end)
                /\ in_window(params, n) = "Greater" <=> n >= end

\* in_window was applied to the params of Attesting for a header at or
\* past the end of the window
C17_Witness ==
    /\ last.kind = "header"
    /\ last.on = "Attesting"
    /\ last.arm = "Greater"
    /\ last.ok
    /\ state.tag = "WaitingForNextEpoch"

\* AttestationInfo values with epoch_len > attestation_window: both
\* stakers, two operational addresses, the stakes and epochs of the model
\* and stake 0, epoch lengths and windows up to EpochLen
AttestationInfos ==
    {[staker_address |-> s, operational_address |-> o, stake |-> k,
      epoch_len |-> lw[1], epoch_id |-> e,
      current_epoch_starting_block |-> (e - 1) * lw[1],
      attestation_window |-> lw[2]] :
        s \in StakerAddresses \cup OtherStakers,
        o \in {Config.staker_operational_address, 4},
        k \in Stakes \cup {0},
        e \in EpochIds,
        lw \in {p \in ((EpochLen - 3)..EpochLen)
                       \X (MIN_ATTESTATION_WINDOW..EpochLen) : p[1] > p[2]}}

\* C20: for every AttestationInfo with epoch_len > attestation_window,
\* block_to_attest = start + (H(stake, epoch_id, staker_address) mod
\* (epoch_len - attestation_window)) lies in
\* [start, start + epoch_len - attestation_window), and it is a function
\* of stake, epoch_id, staker_address, epoch_len, attestation_window and
\* the starting block only; the block_to_attest held by BeforeBlockToAttest
\* is this block.
C20_BlockToAttestInRange ==
    /\ \A info \in AttestationInfos :
          LET block_to_attest == calculate_expected_attestation_block(info)
              start == info.current_epoch_starting_block
              m == info.epoch_len - info.attestation_window
          IN  /\ m > 0
              /\ block_to_attest >= start
              /\ block_to_attest < start + m
              /\ block_to_attest =
                   start + (PoseidonHash(info.stake, info.epoch_id,
                                         info.staker_address) % m)
              /\ \A other \in AttestationInfos :
                   (/\ other.stake = info.stake
                    /\ other.epoch_id = info.epoch_id
                    /\ other.staker_address = info.staker_address
                    /\ other.epoch_len = info.epoch_len
                    /\ other.attestation_window = info.attestation_window) =>
                     calculate_expected_attestation_block(other) = block_to_attest
    /\ state.tag = "BeforeBlockToAttest" =>
          LET info == state.attestation_info
          IN  /\ info.epoch_len > info.attestation_window
              /\ state.block_to_attest = calculate_expected_attestation_block(info)
              /\ state.block_to_attest >= info.current_epoch_starting_block
              /\ state.block_to_attest <
                   info.current_epoch_starting_block
                     + info.epoch_len - info.attestation_window

\* a re-fetch built BeforeBlockToAttest with an assigned block that is
\* not the first block of the epoch
C20_Witness ==
    /\ last.kind \in {"header", "reorg"}
    /\ last.refetch
    /\ last.ok
    /\ state.tag = "BeforeBlockToAttest"
    /\ state.block_to_attest >
         state.attestation_info.current_epoch_starting_block

\* the block the held params were built for
BlockOfParams(attestation_params) ==
    attestation_params.start_of_attestation_window - MIN_ATTESTATION_WINDOW

\* the hash is the chain's canonical hash of the block
IsCanonical(block_number, block_hash) ==
    /\ block_number <= ChainHead
    /\ canonical[block_number + 1] = block_hash

\* C18: in every state that holds AttestationParams (Attesting,
\* AttestationSubmitted) once the reorg notifications sent so far were
\* handled, and at every attest call made then, params.block_hash is the
\* chain's canonical hash of block_to_attest, whatever the interleaving of
\* the headers and the reorg notifications taken from their channels.
C18_HeldHashIsCanonical ==
    (reorgs = <<>> /\ state.tag \in {"Attesting", "AttestationSubmitted"}) =>
      /\ IsCanonical(BlockOfParams(state.attestation_params),
                     state.attestation_params.block_hash)
      /\ new_heads # <<>> =>
           \A r \in Handled(Head(new_heads).block_number,
                            Head(new_heads).block_hash) :
             \A j \in CallsOf(r.calls, "attest") :
               IsCanonical(BlockOfParams(state.attestation_params),
                           r.calls[j].arg)

\* the step takes a header from the new_heads channel
TakesHeader == new_heads # <<>> /\ new_heads' = Tail(new_heads)

\* no block was retracted so far
NoReorgYet == \A n \in 0..ChainHead : canonical[n + 1] = 21 /\ branch = 21

\* a state replacement embeds an info that get_attestation_info returned in
\* that step, for the epoch the chain is in at that time
ReplacedByCurrentEpoch ==
    state'.attestation_info # state.attestation_info =>
      /\ state'.attestation_info.epoch_id = ChainEpoch
      /\ state'.attestation_info \in ChainInfos(Config.staker_operational_address)
      /\ TakesHeader \/ (reorgs # <<>> /\ reorgs' = Tail(reorgs))

\* handling a header while no block was retracted does not decrease the
\* epoch_id of the info
RolloverIncreasesEpoch ==
    (TakesHeader /\ NoReorgYet) =>
      state'.attestation_info.epoch_id >= state.attestation_info.epoch_id

\* a header inside the epoch of the held info keeps the info; a header
\* outside it either fails (the state is restored) or leaves the info of
\* the epoch the chain is in
RefetchedOutsideEpoch ==
    TakesHeader =>
      IF InsideEpoch(state, Head(new_heads).block_number)
      THEN state'.attestation_info = state.attestation_info
      ELSE \/ state' = state
           \/ state'.attestation_info.epoch_id = ChainEpoch

\* C19: in every reachable state the embedded AttestationInfo is one that
\* get_attestation_info returned for the epoch the chain was in when it
\* was fetched, replaced exactly when a header outside its epoch is
\* handled or a reorg notification is handled, and while no block was
\* retracted it is not ahead of the chain; a replacement made for a
\* header while no block was retracted does not decrease epoch_id (it
\* repeats it when the header is older than the epoch the chain is in);
\* once the chain has retracted blocks, a replacement (the reorg
\* reinitialisation, or the rollover for a header handled before or after
\* it) may decrease epoch_id.
C19_InfoFollowsChainEpoch ==
    /\ [](NoReorgYet => state.attestation_info.epoch_id <= ChainEpoch)
    /\ [][ReplacedByCurrentEpoch]_vars
    /\ [][RefetchedOutsideEpoch]_vars
    /\ [][RolloverIncreasesEpoch]_vars

\* the chain went into the second epoch without a retraction and the
\* rollover replaced the info of epoch 1 by the info of epoch 2
C19_Witness ==
    /\ NoReorgYet
    /\ ChainEpoch = 2
    /\ state.attestation_info.epoch_id = 2
    /\ state.tag = "Attesting"

\* C19 as stated: epoch_id does not decrease over successive replacements,
\* except at or after a reorg reinitialisation: handling a header before
\* any reorg notification was handled does not decrease epoch_id.
C19_OnlyReinitialisationDecreases ==
    [][(TakesHeader /\ (NoReorgYet \/ reorgs # <<>>)) =>
         state'.attestation_info.epoch_id >= state.attestation_info.epoch_id]_vars

\* the epoch of the held info is in progress (Attesting or
\* AttestationSubmitted), and the given header is inside that epoch at or
\* past the end of the window of the held params
EpochInProgress(s) == s.tag \in {"Attesting", "AttestationSubmitted"}

WindowClosedAt(s, block_number) ==
    /\ block_number >= s.attestation_params.end_of_attestation_window
    /\ block_number >= s.attestation_info.current_epoch_starting_block
    /\ block_number < s.attestation_info.current_epoch_starting_block
                        + s.attestation_info.epoch_len

\* the StakerAttestationSuccessful event of the held staker and epoch
OwnEvent(s) ==
    [staker_address |-> s.attestation_info.staker_address,
     epoch_id |-> s.attestation_info.epoch_id]

\* C21: for an epoch in progress whose attestation is done on chain (the
\* is-done query answers true), both orders of handling the epoch's
\* StakerAttestationSuccessful event and the header that closes the window
\* end in WaitingForNextEpoch with the same info, the missed counter is not
\* increased by either step and neither step calls attest: the event first
\* gives WaitingForNextEpoch and the header then makes no call at all; the
\* header first asks the is-done query, gives WaitingForNextEpoch, and the
\* event then changes nothing.
C21_EitherOrderEndsWaiting ==
    \A block_number \in BlockNumbers, block_hash \in BlockHashes :
      (EpochInProgress(state) /\ WindowClosedAt(state, block_number)) =>
        LET waiting == [tag |-> "WaitingForNextEpoch",
                        attestation_info |-> state.attestation_info]
            event_first == handle_new_event(state, OwnEvent(state))
        IN  /\ event_first.state = waiting
            /\ event_first.d.missed = 0
            /\ \A r \in handle_new_block_header(
                          event_first.state, Config.staker_operational_address,
                          block_number, block_hash) :
                  /\ r.ok
                  /\ r.state = waiting
                  /\ r.calls = <<>>
                  /\ r.d = NoDelta
            /\ \A r \in Handled(block_number, block_hash) :
                  HasAnswer(r.calls, "attestation_done_in_current_epoch",
                            {"true"}) =>
                    /\ r.ok
                    /\ r.state = waiting
                    /\ r.d.missed = 0
                    /\ ~HasCall(r.calls, "attest")
                    /\ LET event_second ==
                               handle_new_event(r.state, OwnEvent(state))
                       IN  /\ event_second.state = waiting
                           /\ event_second.d = NoDelta
            /\ \E r \in Handled(block_number, block_hash) :
                  HasAnswer(r.calls, "attestation_done_in_current_epoch",
                            {"true"})

\* a header past the window found the submitted attestation done on chain:
\* the state is WaitingForNextEpoch and the epoch was not counted as missed
C21_Witness ==
    /\ last.kind = "header"
    /\ last.on = "AttestationSubmitted"
    /\ last.arm = "Greater"
    /\ last.ok
    /\ last.d = NoDelta
    /\ state.tag = "WaitingForNextEpoch"

\* C28: when the match runs on AttestationSubmitted with a header not past
\* the window and the status query fails or answers Received, the handling
\* succeeds, the state is the same AttestationSubmitted (same info, params
\* and transaction hash), the status query is the only call (no attest
\* call) and no counter changes.
C28_PendingStatusStays ==
    \A block_number \in BlockNumbers, block_hash \in BlockHashes :
      \A r \in Handled(block_number, block_hash) :
        (/\ PollsStatus(r, block_number)
         /\ HasAnswer(r.calls, "attestation_status", {"Err", "Received"})) =>
          /\ r.ok
          /\ r.state = r.dispatched
          /\ r.state = state
          /\ Len(r.calls) = 1
          /\ r.calls[1].arg = state.transaction_hash
          /\ ~HasCall(r.calls, "attest")
          /\ r.d = NoDelta

\* a header inside the window polled the status of the submitted
\* transaction and the State is still AttestationSubmitted, nothing counted
C28_Witness ==
    /\ last.kind = "header"
    /\ last.from = "AttestationSubmitted"
    /\ last.on = "AttestationSubmitted"
    /\ last.arm \in {"Less", "Equal"}
    /\ last.ok
    /\ last.d = NoDelta
    /\ ~last.refetch
    /\ state.tag = "AttestationSubmitted"

\* in WaitingForNextEpoch neither a header inside the epoch of the held
\* info nor an event does anything
WaitingStays ==
    state.tag = "WaitingForNextEpoch" =>
      /\ \A block_number \in BlockNumbers, block_hash \in BlockHashes :
           (/\ block_number >= state.attestation_info.current_epoch_starting_block
            /\ block_number < state.attestation_info.current_epoch_starting_block
                                + state.attestation_info.epoch_len) =>
             \A r \in Handled(block_number, block_hash) :
               /\ r.ok
               /\ r.state = state
               /\ r.calls = <<>>
               /\ r.d = NoDelta
      /\ \A event \in Events :
           /\ handle_new_event(state, event).state = state
           /\ handle_new_event(state, event).d = NoDelta

\* a step that changes a WaitingForNextEpoch state is a reorg step or the
\* step of a header that fetched the attestation info again
WaitingLeftByRebuild ==
    (state.tag = "WaitingForNextEpoch" /\ state' # state) =>
       \/ last'.kind = "reorg" /\ last'.ok
       \/ last'.kind = "header" /\ last'.refetch /\ last'.ok

\* C29: WaitingForNextEpoch is left only by an epoch rollover or a reorg
\* reinitialisation: every header inside the epoch of the held info and
\* every event leave the state unchanged, with no RPC call and no counter
\* change, and every step that changes the state is a successful reorg
\* step or a successful header step that fetched the attestation info.
C29_WaitingLeftOnlyByRebuild == []WaitingStays /\ [][WaitingLeftByRebuild]_vars

\* a header inside the epoch was handled in WaitingForNextEpoch
C29_Witness ==
    /\ last.kind = "header"
    /\ last.from = "WaitingForNextEpoch"
    /\ ~last.refetch
    /\ last.ok
    /\ state.tag = "WaitingForNextEpoch"

\* the chain id is neither MAINNET nor SEPOLIA
UnknownChain(chain_id) == chain_id \notin {MAINNET, SEPOLIA}

\* the startup failed in the resolution of the addresses
AddressResolutionFailed ==
    pc.at = "failed" /\ pc.error # "Getting chain ID"

\* the resolved staking and attestation addresses: the argument when one
\* was given, else the constant of the chain
C27_ArgumentOverridesDefault ==
    pc.at \in {"strk_contract_address", "client"} =>
      /\ pc.staking_contract_address =
           IF pc.config.staking_contract_address # "None"
           THEN pc.config.staking_contract_address
           ELSE IF pc.chain_id = MAINNET THEN MAINNET_STAKING_CONTRACT_ADDRESS
           ELSE SEPOLIA_STAKING_CONTRACT_ADDRESS
      /\ pc.attestation_contract_address =
           IF pc.config.attestation_contract_address # "None"
           THEN pc.config.attestation_contract_address
           ELSE IF pc.chain_id = MAINNET
           THEN MAINNET_ATTESTATION_CONTRACT_ADDRESS
           ELSE SEPOLIA_ATTESTATION_CONTRACT_ADDRESS
      /\ (pc.config.staking_contract_address = "None"
          \/ pc.config.attestation_contract_address = "None") =>
            ~UnknownChain(pc.chain_id)

\* C27: an address given by the configuration overrides the constant of
\* the chain, the constant of mainnet or sepolia is used otherwise, and the
\* address resolution fails only when the chain id is that of no known
\* chain and the staking or the attestation address was not given: with an
\* unknown chain id and both addresses given the startup does not fail.
C27_StartupFailsOnlyWithoutAddress ==
    /\ C27_ArgumentOverridesDefault
    /\ AddressResolutionFailed =>
         /\ UnknownChain(pc.chain_id)
         /\ \/ pc.config.staking_contract_address = "None"
            \/ pc.config.attestation_contract_address = "None"

\* a step in which get_attestation_info of the reorg branch succeeded,
\* failed, and in which main put the notification back
ReinitialisationSucceeds == pc.at = "reorg" /\ pc'.at = "select"
ReinitialisationFails == pc.at = "reorg" /\ pc'.at = "resend"
NotificationPutBack == pc.at = "resend" /\ pc'.at = "select"

\* on success the State is a BeforeBlockToAttest built from an attestation
\* info of the contract, with no params and no transaction hash
ReorgRebuildsState ==
    ReinitialisationSucceeds =>
      /\ state'.tag = "BeforeBlockToAttest"
      /\ DOMAIN state' = {"tag", "attestation_info", "block_to_attest"}
      /\ state'.attestation_info \in
           ChainInfos(Config.staker_operational_address)
      /\ state'.block_to_attest =
           state'.attestation_info.current_epoch_starting_block
           + (PoseidonHash(state'.attestation_info.stake,
                           state'.attestation_info.epoch_id,
                           state'.attestation_info.staker_address)
              % (state'.attestation_info.epoch_len
                 - state'.attestation_info.attestation_window))
      /\ UNCHANGED <<new_heads, events, reorgs>>

\* on failure the State is unchanged and main holds the same notification
\* to put it back; putting it back appends it to the reorg queue
ReorgFailureKeepsNotification ==
    /\ ReinitialisationFails =>
         /\ state' = state
         /\ pc'.item = pc.item
         /\ UNCHANGED <<new_heads, events, reorgs>>
    /\ NotificationPutBack =>
         /\ state' = state
         /\ reorgs' = Append(reorgs, pc.item)

\* main, holding the notification of a failed reinitialisation, finds room
\* for it in the reorg queue, which only main itself takes from
ResendFindsRoom == pc.at = "resend" => Len(reorgs) < QueueCap

\* C22: when a reorg notification is taken and get_attestation_info
\* succeeds, the State becomes from_attestation_info(new_info), a
\* BeforeBlockToAttest without params or transaction hash; when it fails,
\* the State is unchanged and the same notification is put back on the
\* reorg queue after TASK_RESTART_DELAY, so that the reinitialisation is
\* attempted again: main never waits for room in the queue it alone
\* takes from.
C22_ReorgReinitialisesOrRequeues ==
    /\ [][ReorgRebuildsState]_vars
    /\ [][ReorgFailureKeepsNotification]_vars
    /\ []ResendFindsRoom

\* the parts of C22 about the State and the held notification
C22_StateAndNotification ==
    [][ReorgRebuildsState]_vars /\ [][ReorgFailureKeepsNotification]_vars

\* the body of the loop of a running task, applied to a message
FetchOf(t, message) ==
    IF t = "headers" THEN headers_fetch(tasks[t].subscription_id, message)
    ELSE events_fetch(tasks[t].subscription_id, message)

\* the two tasks with a subscription
SubscribedTasks == {"headers", "events"}

\* a reorg notification that carries the id of the task's own subscription
\* is sent, as it is, to the reorg channel by either task, also when the
\* channel already holds the same notification
ReorgsRouted ==
    \A t \in SubscribedTasks, reorg \in ReorgDatas :
      tasks[t].status = "running" =>
        LET o == FetchOf(t, Notification(ReorgMethod, tasks[t].subscription_id,
                                         reorg))
        IN  /\ o = [exit |-> FALSE, send |-> "reorg_tx", item |-> reorg]
            /\ Len(reorgs) < QueueCap =>
                 Len(SelectSeq(Append(reorgs, o.item), LAMBDA x : x = reorg))
                   = Len(SelectSeq(reorgs, LAMBDA x : x = reorg)) + 1

\* every outcome of the reorg branch has asked for the attestation info
ReorgBranchAttempts ==
    \A o \in reorg_branch(state, Config.staker_operational_address) :
      HasCall(o.calls, "get_attestation_info")

\* main is inside the reorg branch, waiting for room in the reorg channel,
\* which is full
MainWaitsForRoom == pc.at = "resend" /\ Len(reorgs) >= QueueCap

\* C23: a reorg notification received by the headers task or by the events
\* task with the id of its own subscription is sent to the one reorg
\* channel main takes from, twice when it arrives on both subscriptions,
\* and every notification in the channel leads to a reinitialisation
\* attempt: main, which alone takes from the channel, is never stopped
\* while notifications wait in it.
C23_EveryRoutedReorgIsAttempted ==
    /\ ReorgsRouted
    /\ ReorgBranchAttempts
    /\ reorgs # <<>> => ~MainWaitsForRoom

\* the parts of C23 about the routing and about the attempt a taken
\* notification causes
C23_RoutedToOneQueue == ReorgsRouted /\ ReorgBranchAttempts

\* both tasks run and the reorg channel holds the same notification twice
C23_BothSubscriptionsForwarded ==
    /\ tasks["headers"].status = "running"
    /\ tasks["events"].status = "running"
    /\ Len(reorgs) = 2
    /\ reorgs[1] = reorgs[2]

\* main leaves its loop only from the select, on TERM or INT, and returns
\* Ok(())
StopsOnlyOnSignal ==
    (pc.at # "stopped" /\ pc'.at = "stopped") =>
      /\ pc.at = "select"
      /\ pc'.by \in {"TERM", "INT"}
      /\ pc'.result = "Ok"
      /\ state' = state

\* a step in which a task ends leaves the State as it is, and main where
\* it is unless the step is main's return on a signal, which ends the tasks
TaskEndKeepsLoop ==
    \A t \in TaskNames :
      (tasks[t] # Exited /\ tasks'[t] = Exited) =>
        /\ state' = state
        /\ pc' = pc \/ (pc'.at = "stopped" /\ pc'.by \in {"TERM", "INT"})

\* the step main makes for a task that has ended: taken at the select, it
\* spawns the same task again (Starting: the sleep of TASK_RESTART_DELAY,
\* then the subscription), and changes nothing else
EndedTaskRescheduled ==
    \A t \in TaskNames :
      (tasks[t] = Exited /\ tasks'[t] # Exited) =>
        /\ pc.at = "select"
        /\ pc' = pc
        /\ state' = state
        /\ tasks' = [tasks EXCEPT ![t] = Starting]
        /\ UNCHANGED <<new_heads, events, reorgs>>

\* C24: main's loop ends only on a TERM or INT signal, and main then
\* returns success; the end of a stream task (headers, events,
\* transactions) never ends the loop and never changes the State; main
\* answers it by scheduling the same task again, to start after
\* TASK_RESTART_DELAY with the same channels.
C24_OnlySignalsEndTheLoop ==
    /\ [][StopsOnlyOnSignal]_vars
    /\ [][TaskEndKeepsLoop]_vars
    /\ [][EndedTaskRescheduled]_vars

\* the headers task has forwarded a header, has ended and was spawned
\* again by main, which is at its select
C24_Witness ==
    /\ tasks["headers"] = Starting
    /\ new_heads # <<>>
    /\ pc.at = "select"

\* main is inside the header branch or the reorg branch of the select:
\* handle_new_block_header, get_attestation_info, the sleep or the re-send
\* has not returned yet
BranchInProgress == pc.at \in {"header", "reorg", "resend"}

\* a step that takes an item from one of the three channels
TakesItem ==
    \/ new_heads # <<>> /\ new_heads' = Tail(new_heads)
    \/ events # <<>> /\ events' = Tail(events)
    \/ reorgs # <<>> /\ reorgs' = Tail(reorgs)

\* while a branch is in progress no item is taken from any channel, main
\* stays in that branch until it is back at the select, and the State
\* changes only in the step that ends the branch
OneBranchAtATime ==
    BranchInProgress =>
      /\ ~TakesItem
      /\ pc.at = "header" => pc'.at \in {"header", "select"}
      /\ pc.at = "reorg" => pc'.at \in {"reorg", "resend", "select"}
      /\ pc.at = "resend" => pc'.at \in {"resend", "select"}
      /\ pc'.at = pc.at => pc' = pc
      /\ state' # state => pc'.at = "select"

\* the State changes only in a step of main: the end of the header branch,
\* the end of the reorg branch, or the event branch, which takes the event
\* and handles it in one step at the select
StateChangesInBranches ==
    state' # state =>
      \/ pc.at \in {"header", "reorg"} /\ pc'.at = "select"
      \/ /\ pc.at = "select" /\ pc' = pc
         /\ events # <<>> /\ events' = Tail(events)
         /\ state' = handle_new_event(state, Head(events)).state

\* C25: the handling of headers is strictly serial: no two
\* handle_new_block_header calls, and no handle_new_block_header call
\* together with a handle_new_event call or a reorg reinitialisation, are
\* in progress at once; main takes the next item from a channel only when
\* the step for the previous one has run to completion.
C25_BranchesAreSerial ==
    [][OneBranchAtATime]_vars /\ [][StateChangesInBranches]_vars

\* handle_new_block_header is in progress while an event and a reorg
\* notification wait in their channels
C25_Witness ==
    /\ pc.at = "header"
    /\ events # <<>>
    /\ reorgs # <<>>

\* the notification kinds of subscription.rs 48-57
KnownMethods == {NewHeadsMethod, EventsMethod, ReorgMethod}

\* the notification kinds a task forwards: the arms of its match that
\* send (headers.rs 34-52, events.rs 48-75)
KindsHandled(t) ==
    IF t = "headers" THEN {NewHeadsMethod, ReorgMethod}
    ELSE {EventsMethod, ReorgMethod}

\* C26 as stated: a running task ignores every notification whose
\* subscription id is not the id its subscribe call returned, or whose
\* kind the task does not handle or does not know: it forwards nothing and
\* goes on with its loop
C26_MismatchedAndUnknownIgnored ==
    \A t \in SubscribedTasks :
      tasks[t].status = "running" =>
        \A message \in Messages :
          /\ message.frame = "Text"
          /\ \/ message.subscription_id # tasks[t].subscription_id
             \/ message.method \notin KindsHandled(t)
          => FetchOf(t, message) = Continue

\* C26, amended: a running task ignores a notification of a known kind
\* whose subscription id is not the id its subscribe call returned or whose
\* kind it does not handle, and a frame that is not text: it forwards
\* nothing and goes on with its loop.  A text message of a kind the program
\* does not know ends the task with an error, and nothing is forwarded
C26_MismatchIgnoredUnknownEndsTask ==
    \A t \in SubscribedTasks :
      tasks[t].status = "running" =>
        \A message \in Messages :
          LET o == FetchOf(t, message)
          IN  /\ /\ message.frame = "Text"
                 /\ message.method \in KnownMethods
                 /\ \/ message.subscription_id # tasks[t].subscription_id
                    \/ message.method \notin KindsHandled(t)
                 => /\ ~o.exit
                    /\ o.send = "none"
              /\ message.frame = "Binary" => ~o.exit /\ o.send = "none"
              /\ /\ message.frame = "Text"
                 /\ message.method \notin KnownMethods
                 => /\ o.exit
                    /\ o.send = "none"

\* the events task has ended while the headers task runs, nothing was
\* forwarded, and the node can send the headers task a header of a foreign
\* subscription, an events notification and a message of an unknown kind
C26_Witness ==
    /\ tasks["headers"].status = "running"
    /\ tasks["events"].status = "exited"
    /\ new_heads = <<>> /\ events = <<>> /\ reorgs = <<>>
    /\ \E header \in LoopHeaders :
          Notification(NewHeadsMethod, ForeignSubscriptionId, header)
             \in Messages
    /\ \E message \in Messages :
          message.frame = "Text" /\ message.method = EventsMethod
    /\ UnknownNotification \in Messages

\* the event has the staker in keys[1] and an epoch in data[0] that fits
\* u64 (keys and data are numbered from 0 in the source and from 1 here)
CompleteEvent(event) ==
    /\ Len(event.keys) >= 2
    /\ Len(event.data) >= 1
    /\ event.data[1].high = 0

\* C30: the running events task sends to the event channel only for an
\* events notification that carries its own subscription id and whose
\* keys[0] is the StakerAttestationSuccessful selector; what it sends is
\* the event with staker_address = keys[1] and epoch_id = data[0]; an
\* event without keys[1] or data[0], or whose data[0] does not fit u64,
\* is not sent, and no events notification ends the task
C30_EventsForwardedAsParsed ==
    tasks["events"].status = "running" =>
      \A message \in Messages :
        LET o == events_fetch(tasks["events"].subscription_id, message)
            event == message.result
            own == message.subscription_id = tasks["events"].subscription_id
            selected ==
                /\ Len(event.keys) >= 1
                /\ event.keys[1] = staker_attestation_successful_selector
        IN  /\ o.send = "events_tx" =>
                 message.frame = "Text" /\ message.method = EventsMethod
            /\ message.frame = "Text" /\ message.method = EventsMethod =>
                 /\ ~o.exit
                 /\ o.send \in {"none", "events_tx"}
                 /\ o.send = "events_tx"
                      <=> own /\ selected /\ CompleteEvent(event)
                 /\ own /\ selected /\ CompleteEvent(event) =>
                      o.item = [staker_address |-> event.keys[2],
                                epoch_id |-> event.data[1].low]

\* the events task has sent a parsed event, which waits in the channel
C30_Witness ==
    /\ tasks["events"].status = "running"
    /\ events # <<>>
    /\ events[1] = [staker_address |-> 1, epoch_id |-> 1]

\* main is at the re-send of the reorg branch and the send cannot complete
MainBlocked == pc.at = "resend" /\ ~ENABLED ResendReorg

\* a task that has a reorg notification to forward cannot send it
TasksStalled ==
    \A t \in SubscribedTasks, reorg \in ReorgDatas :
      tasks[t].status = "running" =>
        ~CanSend(FetchOf(t, Notification(ReorgMethod,
                                         tasks[t].subscription_id, reorg)))

\* C31: main never blocks for ever: the re-send of a reorg notification
\* after a failed get_attestation_info always completes, also when the
\* headers and events tasks have filled the reorg queue in the meantime,
\* so main always comes back to the select, where the queues are drained
\* and TERM/INT are taken
C31_ResendAlwaysCompletes == ~MainBlocked

\* once main is blocked at the re-send it stays there: no step makes room
\* in the reorg queue, the tasks with a reorg notification stay stalled
\* and no signal is taken
C31_BlockedForEver ==
    [][MainBlocked =>
         /\ MainBlocked'
         /\ pc' = pc
         /\ reorgs' = reorgs
         /\ TasksStalled /\ TasksStalled'
         /\ ~ENABLED Signal]_vars

\* main is blocked at the re-send while both tasks run
C31_BlockedWhileTasksRun ==
    /\ MainBlocked
    /\ tasks["headers"].status = "running"
    /\ tasks["events"].status = "running"

\* C32 as stated: an attest call is made only while handling a header
\* whose block number n satisfies start <= n < end for the params held,
\* whatever the order of the headers
C32_AttestOnlyInsideWindow ==
    \A block_number \in BlockNumbers, block_hash \in BlockHashes :
      \A r \in Handled(block_number, block_hash) :
        HasCall(r.calls, "attest") =>
          /\ r.dispatched.tag \in {"Attesting", "AttestationSubmitted"}
          /\ r.dispatched.attestation_params.start_of_attestation_window
               <= block_number
          /\ block_number
               < r.dispatched.attestation_params.end_of_attestation_window

\* C32, amended: an attest call is made only while handling a header whose
\* block number n is below the end of the window of the params held, in
\* Attesting or AttestationSubmitted; in Attesting n is also at or past the
\* start of the window; in AttestationSubmitted n can be below the start
\* (a header that goes backwards), and the call then follows a Rejected or
\* Reverted status of the held transaction
C32_AttestOnlyBeforeWindowEnd ==
    \A block_number \in BlockNumbers, block_hash \in BlockHashes :
      \A r \in Handled(block_number, block_hash) :
        HasCall(r.calls, "attest") =>
          LET held == r.dispatched.attestation_params
          IN  /\ r.dispatched.tag \in {"Attesting", "AttestationSubmitted"}
              /\ block_number < held.end_of_attestation_window
              /\ r.dispatched.tag = "Attesting" =>
                   held.start_of_attestation_window <= block_number
              /\ block_number < held.start_of_attestation_window =>
                   /\ r.dispatched.tag = "AttestationSubmitted"
                   /\ ObservedFailure(r.calls)

\* a header below the start of the window was handled in
\* AttestationSubmitted: the transaction had failed and a new one was
\* submitted
C32_Witness ==
    /\ last.kind = "header"
    /\ last.on = "AttestationSubmitted"
    /\ last.arm = "Less"
    /\ last.ok
    /\ last.d.failure = 1
    /\ last.d.submitted = 1
    /\ state.tag = "AttestationSubmitted"

\* C33: since the last reinitialisation of the State (startup, a
\* successful rollover or a successful reorg re-query) confirmed_count and
\* missed_epochs_count have increased by at most 1 together; once one of
\* them has increased the State is WaitingForNextEpoch, and there the
\* handling of no header and of no event increases either of them
C33_OneTerminalAccountingStep ==
    /\ metrics.confirmed + metrics.missed <= 1
    /\ metrics.confirmed + metrics.missed = 1 =>
         state.tag = "WaitingForNextEpoch"
    /\ state.tag = "WaitingForNextEpoch" =>
         /\ \A block_number \in BlockNumbers, block_hash \in BlockHashes :
              \A r \in Handled(block_number, block_hash) :
                /\ r.d.confirmed = 0
                /\ r.d.missed = 0
         /\ \A event \in Events :
              /\ handle_new_event(state, event).d.confirmed = 0
              /\ handle_new_event(state, event).d.missed = 0

\* the epoch was counted as missed or as confirmed and the State waits
\* for the next epoch
C33_Witness ==
    /\ metrics.confirmed + metrics.missed = 1
    /\ state.tag = "WaitingForNextEpoch"

\* C34: a handling of a header that returns an error has made no attest
\* call and has not increased submitted_count, confirmed_count or
\* missed_epochs_count; it can have increased failure_count, by 1, for a
\* Rejected or Reverted status it observed before the call that failed
C34_ErrorLeavesOnlyFailureCount ==
    \A block_number \in BlockNumbers, block_hash \in BlockHashes :
      \A r \in Handled(block_number, block_hash) :
        ~r.ok =>
          /\ ~HasCall(r.calls, "attest")
          /\ r.d.submitted = 0
          /\ r.d.confirmed = 0
          /\ r.d.missed = 0
          /\ r.d.failure \in {0, 1}
          /\ r.d.failure = 1 => ObservedFailure(r.calls)

\* a header handled in AttestationSubmitted saw the transaction fail and
\* returned an error: the failure stays counted and the State is the
\* snapshot again
C34_Witness ==
    /\ last.kind = "header"
    /\ ~last.ok
    /\ last.d.failure = 1
    /\ last.from = "AttestationSubmitted"
    /\ state.tag = "AttestationSubmitted"

\* the State after a step keeps the info of the State before it, and the
\* params if it holds params
KeepsInfoAndParams(before, after) ==
    /\ after.attestation_info = before.attestation_info
    /\ "attestation_params" \in DOMAIN after =>
         /\ "attestation_params" \in DOMAIN before
         /\ after.attestation_params = before.attestation_params

\* C35: from Attesting on and until the State is built again from a new
\* attestation info, no handling changes the embedded AttestationInfo or
\* the held AttestationParams: a header that makes no successful re-fetch,
\* whatever its handling does (failed or successful submission,
\* resubmission, status poll, error), and an event, matching or not, leave
\* the same info and, while params are held, the same params; once
\* WaitingForNextEpoch has dropped the params none are held again; and
\* every attest call is made from the embedded operational_address for the
\* held block_hash
C35_ParamsAndInfoAreFrozen ==
    state.tag \in {"Attesting", "AttestationSubmitted", "WaitingForNextEpoch"} =>
      /\ \A block_number \in BlockNumbers, block_hash \in BlockHashes :
           \A r \in Handled(block_number, block_hash) :
             /\ ~(Rebuilt(r.calls) /\ r.ok) =>
                  KeepsInfoAndParams(state,
                                     IF r.ok THEN r.state ELSE state)
             /\ \A j \in CallsOf(r.calls, "attest") :
                  /\ ~Rebuilt(r.calls)
                  /\ r.calls[j].who = state.attestation_info.operational_address
                  /\ r.calls[j].arg = state.attestation_params.block_hash
      /\ \A event \in Events :
           KeepsInfoAndParams(state, handle_new_event(state, event).state)

\* a failed transaction was replaced by a new one inside the window: the
\* State holds params and a new transaction hash
C35_Witness ==
    /\ last.kind = "header"
    /\ last.from = "AttestationSubmitted"
    /\ last.arm = "Equal"
    /\ ~last.refetch
    /\ last.d.failure = 1
    /\ last.d.submitted = 1
    /\ state.tag = "AttestationSubmitted"

\* the last block of the epoch of the info
LastBlockOfEpoch(info) == info.current_epoch_starting_block + info.epoch_len - 1

\* C36: for every AttestationInfo with epoch_len > attestation_window the
\* window closes inside the epoch: block_to_attest + attestation_window is
\* at most the last block of the epoch.  The params a State holds end at
\* that block, so the header with the block number of the end is inside
\* the held epoch: it is dispatched on the held State, without a re-fetch,
\* and the comparison of the arm is Greater
C36_WindowClosesInsideEpoch ==
    /\ \A info \in AttestationInfos :
         LET end == calculate_expected_attestation_block(info)
                      + info.attestation_window
         IN  /\ end <= LastBlockOfEpoch(info)
             /\ end >= info.current_epoch_starting_block
    /\ "attestation_params" \in DOMAIN state =>
         LET info == state.attestation_info
             end == state.attestation_params.end_of_attestation_window
         IN  /\ end = info.current_epoch_starting_block
                        + (PoseidonHash(info.stake, info.epoch_id,
                                        info.staker_address)
                           % (info.epoch_len - info.attestation_window))
                        + info.attestation_window
             /\ end <= LastBlockOfEpoch(info)
             /\ end \in BlockNumbers
             /\ \A block_hash \in BlockHashes :
                  \A r \in Handled(end, block_hash) :
                    /\ r.dispatched = state
                    /\ ~HasCall(r.calls, "get_attestation_info")
                    /\ HasCall(r.calls, "attestation_done_in_current_epoch")
                    /\ ~HasCall(r.calls, "attest")
                    /\ r.ok
                    /\ r.state.tag = "WaitingForNextEpoch"

\* a header at or past the end of the window was handled inside the held
\* epoch, without a re-fetch, and closed the window
C36_Witness ==
    /\ last.kind = "header"
    /\ last.from \in {"Attesting", "AttestationSubmitted"}
    /\ last.on = last.from
    /\ last.arm = "Greater"
    /\ ~last.refetch
    /\ state.tag = "WaitingForNextEpoch"

\* the States main can hold after the header of the block is handled from
\* one of the given States, and after any events that follow it: every
\* hash of the header, every answer of the RPC calls, an error restoring
\* the State (main.rs 305-330)
AfterHeaderAndEvents(states, block_number) ==
    LET handled ==
            UNION {{header_branch(s, r) :
                      r \in UNION {handle_new_block_header(
                                       s, Config.staker_operational_address,
                                       block_number, block_hash) :
                                   block_hash \in BlockHashes}} :
                   s \in states}
    IN  handled \cup {handle_new_event(s, event).state :
                         s \in handled, event \in Events}

\* the States main can hold after the headers of the consecutive blocks
\* from..to are handled in increasing order
RECURSIVE EpochRun(_, _, _)
EpochRun(states, from, to) ==
    IF from > to THEN states
    ELSE EpochRun(AfterHeaderAndEvents(states, from), from + 1, to)

\* the States built by a successful rollover for the header of the block
\* when the chain is in the epoch of that block
RolledOverAt(s, block_number) ==
    {header_branch(s, r) :
       r \in {x \in handle_new_block_header(
                        s, Config.staker_operational_address,
                        block_number, 21) :
                /\ x.ok
                /\ Rebuilt(x.calls)
                /\ x.state.attestation_info.current_epoch_starting_block
                     <= block_number
                /\ block_number
                     <= x.state.attestation_info.current_epoch_starting_block
                          + x.state.attestation_info.epoch_len - 1}}

\* C37: when the headers of an epoch are handled for consecutive blocks
\* in increasing order, from the assigned block or an earlier block of the
\* epoch up to the last block of the epoch, with no reorg, the State is
\* WaitingForNextEpoch after the last of them, whatever the RPC calls
\* answer and whatever events arrive in between: from a
\* BeforeBlockToAttest of the epoch, and from the State a successful
\* rollover builds for the first header of an epoch
C37_EpochEndsWaiting ==
    LET info == state.attestation_info
        first == info.current_epoch_starting_block
        next == first + info.epoch_len
    IN  /\ state.tag = "BeforeBlockToAttest" =>
             \A from \in first..state.block_to_attest :
               \A s \in EpochRun({state}, from, next - 1) :
                 s = WaitingForNextEpoch(info)
        /\ next + info.epoch_len - 1 \in BlockNumbers =>
             \A rebuilt \in RolledOverAt(state, next) :
               /\ rebuilt.tag \in {"BeforeBlockToAttest", "Attesting"}
               /\ \A s \in EpochRun({rebuilt}, next + 1,
                                    next + info.epoch_len - 1) :
                    s = WaitingForNextEpoch(rebuilt.attestation_info)

\* the State waits for the next epoch at the end of an epoch whose
\* headers it can have handled from an earlier block than the assigned
\* one on, and the first header of the next epoch rolls it over
C37_Witness ==
    /\ state.tag = "WaitingForNextEpoch"
    /\ last.kind = "header"
    /\ last.arm = "Greater"
    /\ calculate_expected_attestation_block(state.attestation_info)
         > state.attestation_info.current_epoch_starting_block
    /\ state.attestation_info.current_epoch_starting_block
         + state.attestation_info.epoch_len \in BlockNumbers
    /\ RolledOverAt(state, state.attestation_info.current_epoch_starting_block
                             + state.attestation_info.epoch_len) # {}

\* the tasks of a kind that are running or waiting out their restart delay
LiveTasks(t) == IF tasks[t].status \in {"starting", "running"} THEN 1 ELSE 0

\* a step in which main spawns a task of the kind
Spawns(t) == tasks'[t] = Starting /\ tasks[t] # Starting

\* C38: of each kind (headers, events, transactions) at most one task is
\* running or waiting out its restart delay: main spawns a task of a kind
\* only from the select and only when the previous task of that kind has
\* returned, and a task that has returned comes back only by such a spawn,
\* so no channel has two producers of the same kind
C38_OneTaskPerKind ==
    /\ [](\A t \in TaskNames : LiveTasks(t) <= 1)
    /\ [][\A t \in TaskNames :
            /\ Spawns(t) =>
                 /\ tasks[t] = Exited
                 /\ pc.at = "select"
                 /\ \A other \in TaskNames \ {t} : tasks'[other] = tasks[other]
            /\ tasks[t] = Exited /\ tasks'[t] # Exited => Spawns(t)
            /\ tasks'[t].status = "running" /\ tasks[t].status # "running"
                 => tasks[t] = Starting]_vars

\* the headers task has sent a header, has returned and was spawned again:
\* it waits out its restart delay while its header is still in the channel
C38_Witness ==
    /\ tasks["headers"] = Starting
    /\ new_heads # <<>>
    /\ pc.at = "select"

----------------------------------------------------------------------------
(* Specification SpecTip: TipCalculationParams::calculate_tip              *)
(* (src/src/tip.rs), applied to every input of bounded sets.  The u64 and  *)
(* the f64 of the source are kept as an unsigned integer of TipBits bits   *)
(* and a binary floating-point number with a significand of MantissaBits   *)
(* bits (64 and 53 in the source), with the conversions of Rust: integer   *)
(* to float rounds to the nearest float, ties to even; float to integer    *)
(* truncates and saturates.                                                *)

\* the width of the unsigned tip
TipBits == 8
\* the width of the significand of the float
MantissaBits == 5

RECURSIVE Pow2(_)
Pow2(n) == IF n = 0 THEN 1 ELSE 2 * Pow2(n - 1)

\* u64::MAX
U64Max == Pow2(TipBits) - 1

RECURSIVE BitLength(_)
BitLength(x) == IF x = 0 THEN 0 ELSE 1 + BitLength(x \div 2)

\* the float nearest to the natural number x, ties to even: `as f64', and
\* the rounding of an arithmetic result
RoundToF64(x) ==
    LET e == BitLength(x) - MantissaBits
    IN  IF e <= 0 THEN x
        ELSE LET unit == Pow2(e)
                 q == x \div unit
                 r == x % unit
                 half == unit \div 2
                 up == r > half \/ (r = half /\ q % 2 = 1)
             IN  (IF up THEN q + 1 ELSE q) * unit

\* the product of two integer-valued floats
F64Mul(a, b) ==
    IF a * b >= 0 THEN RoundToF64(a * b) ELSE 0 - RoundToF64(0 - (a * b))

\* `as u64' of an integer-valued float: saturating
F64ToU64(x) == IF x < 0 THEN 0 ELSE IF x > U64Max THEN U64Max ELSE x

\* std::cmp::max
max(a, b) == IF a >= b THEN a ELSE b

\* TipCalculationParams::default (tip.rs 8-15)
TipCalculationParamsDefault == [tip_boost |-> 1, minimum_tip |-> 0]

\* a faulty variant of calculate_tip: the smaller of the scaled tip and the
\* minimum is returned
calculate_tip_Min(self, current_median_tip) ==
    LET scaled_median_tip ==
            F64ToU64(F64Mul(RoundToF64(current_median_tip), self.tip_boost))
    IN  IF scaled_median_tip <= self.minimum_tip THEN scaled_median_tip
        ELSE self.minimum_tip

\* tip.rs 18-21
calculate_tip(self, current_median_tip) ==
    LET scaled_median_tip ==
            F64ToU64(F64Mul(RoundToF64(current_median_tip), self.tip_boost))
    IN  max(scaled_median_tip, self.minimum_tip)

\* the inputs: integer-valued boosts, minimum tips, every median tip
TipBoosts == {0 - 1, 0, 1, 2, 3}
MinimumTips == {0, 2, 3, U64Max}
MedianTips == 0..U64Max

\* the call of calculate_tip returns
CalculateTip ==
    /\ pc.at = "calculate_tip"
    /\ pc' = [pc EXCEPT !.at = "returned"]
    /\ last' = [kind |-> "tip",
                tip |-> calculate_tip(pc.self, pc.current_median_tip)]
    /\ UNCHANGED <<state, metrics, submitted, epoch_acc, events, tasks>>
    /\ UNCHANGED chain_vars

InitTip ==
    /\ state = NotBuilt
    /\ last = [kind |-> "startup"]
    /\ metrics = NoDelta
    /\ submitted = {}
    /\ epoch_acc = NewEpochAcc
    /\ canonical = <<21>>
    /\ branch = 21
    /\ new_heads = <<>>
    /\ reorgs = <<>>
    /\ events = <<>>
    /\ tasks = [t \in TaskNames |-> Starting]
    /\ \E tip_boost \in TipBoosts, minimum_tip \in MinimumTips,
          current_median_tip \in MedianTips :
          pc = [at |-> "calculate_tip",
                self |-> [tip_boost |-> tip_boost, minimum_tip |-> minimum_tip],
                current_median_tip |-> current_median_tip]

NextTip == CalculateTip

SpecTip == InitTip /\ [][NextTip]_vars

\* C39 as stated: calculate_tip(m) is max(floor(m * tip_boost),
\* minimum_tip) for every integer-valued boost, and it is m for the default
\* parameters
C39_TipIsMaxOfProductAndMinimum ==
    last.kind = "tip" =>
      /\ last.tip = max(pc.current_median_tip * pc.self.tip_boost,
                        pc.self.minimum_tip)
      /\ pc.self = TipCalculationParamsDefault =>
           last.tip = pc.current_median_tip

\* C39, amended: calculate_tip(m) is never below minimum_tip; it is
\* max(m * tip_boost, minimum_tip) for an integer-valued boost when m and
\* the product are integers a float holds exactly (at most 2^MantissaBits
\* in size); for the default parameters it is m when m is at most
\* 2^MantissaBits, and for a larger m it is m rounded to the nearest
\* float, at most u64::MAX, so it differs from m by at most
\* m / 2^MantissaBits
C39_TipExactForSmallProducts ==
    last.kind = "tip" =>
      LET m == pc.current_median_tip
          product == m * pc.self.tip_boost
          exact == Pow2(MantissaBits)
      IN  /\ last.tip >= pc.self.minimum_tip
          /\ last.tip <= U64Max
          /\ (m <= exact /\ product <= exact /\ 0 - product <= exact) =>
               last.tip = max(product, pc.self.minimum_tip)
          /\ pc.self = TipCalculationParamsDefault =>
               /\ m <= exact => last.tip = m
               /\ (last.tip - m) * exact <= m
               /\ (m - last.tip) * exact <= m

\* tests::complex of tip.rs: boost 3, minimum 3, median 2 give 6
C39_Witness ==
    /\ last.kind = "tip"
    /\ pc.self = [tip_boost |-> 3, minimum_tip |-> 3]
    /\ pc.current_median_tip = 2
    /\ last.tip = 6

====
